---- MODULE Spec2Model ----
(***************************************************************************)
(* Typed request/response router between a UI context and a worker:        *)
(*   - the caller side, WorkerClient (src/src/lib/workerClient.ts);         *)
(*   - the dispatcher returned by createWorkerHandler (lib/router.ts, which *)
(*     is not part of the source tree and is modelled from its             *)
(*     specification) with the procedures of the documented routers;       *)
(*   - the two router-based workers: reject-when-not-ready                 *)
(*     (src/src/worker.ts) and queue-and-replay (src/unnamed/part_002).    *)
(***************************************************************************)
EXTENDS Integers, Sequences, FiniteSets, TLC

VARIABLES
    \* ---- WorkerClient (caller side) ----
    requestId,        \* WorkerClient.requestId
    pendingRequests,  \* WorkerClient.pendingRequests: id -> the call whose callbacks it holds
    calls,            \* one record per request() call: its promise and its callbacks
    toWorker,         \* Request Envelopes handed to worker.postMessage, in order
    terminated,       \* worker.terminate() has been called on the client's worker
    lastEvent,        \* the operation performed by the last step and its argument
    \* ---- dispatcher (worker side) ----
    router,           \* the router the dispatcher was created with
    users,            \* rows of the users table the handlers' context holds
    dispatched,       \* one record per completed handle(): request, response, handler runs
                      \* (in a worker also its caller: the listener or the drain loop)
    \* ---- router-based workers ----
    variant,          \* "reject" (worker.ts) or "queue" (part_002)
    initPc,           \* position of the init IIFE
    isDbReady,        \* module-level isDbReady
    handleRequest,    \* module-level handleRequest: FALSE is null, TRUE the dispatcher
    requestQueue,     \* module-level requestQueue (queue variant)
    inbox,            \* messages the page has posted that the listener has not yet received
    received,         \* Request Envelopes the listener has received, in arrival order
    awaiting,         \* listener invocations suspended in await handleRequest(request)
    draining,         \* the request the drain loop is awaiting, or <<>>
    posted,           \* messages the worker has posted, in order
    \* ---- the page and its worker together ----
    deliveredUpTo,    \* how many of the worker's posted messages the page has received
    \* ---- React Query mutation hooks ----
    mutations,        \* call -> the useMutation observer that issued it: options and status
    effects,          \* invalidations and caller callbacks run by the observers, in order
    \* ---- the module-level client registry ----
    registryKind,     \* "keyed" (workerClient.ts) or "single" (part_003)
    workerClientInstances,  \* keyed: workerUrl -> instance; single: the instance, or <<>> for null
    instances,        \* the WorkerClient instances created so far, each with its Worker's URL
    proxyInstances,   \* workerClient.ts: workerUrl -> the proxy useWorkerClient cached for it
    proxies,          \* the proxies created so far, each with its target instance
    \* ---- the type-tagged database workers ----
    flavour,          \* "worker2" (worker2.ts), "sqlite" (worker.ts 61-355), "pglite" (worker.ts
                      \* 358-578), "pgliteRaw" (part_002 189-357)
    opfs,             \* the platform: "available", "unavailable" (sqlite3.opfs undefined), "broken"
    taggedPc,         \* "loading" until the module's initialization has run, then "running"
    db,               \* "null", "opfs" or "memory": the worker's database handle
    isInitialized,    \* worker2.ts: the isInitialized flag
    opfsTable,        \* the users table of the database file kept in OPFS
    memTable,         \* the users table of the non-persistent database
    dbQueue,          \* pglite: statements submitted and not yet executed, oldest first
    outbox,           \* messages the worker posted, oldest first
    nCommands,        \* commands received in this and earlier runs of the worker
    nRestarts         \* times the worker was started again

clientVars == <<requestId, pendingRequests, calls, toWorker, terminated, lastEvent>>
dispatchVars == <<router, users, dispatched>>
workerVars == <<variant, initPc, isDbReady, handleRequest, requestQueue, inbox,
                received, awaiting, draining, posted>>
channelVars == <<deliveredUpTo>>
hookVars == <<mutations, effects>>
registryVars == <<registryKind, workerClientInstances, instances, proxyInstances, proxies>>
taggedVars == <<flavour, opfs, taggedPc, db, isInitialized, opfsTable, memTable, dbQueue,
                outbox, nCommands, nRestarts>>
otherVars == <<hookVars, registryVars, taggedVars>>
vars == <<clientVars, dispatchVars, workerVars, channelVars, otherVars>>

(***************************************************************************)
(* Bounds of the model.                                                    *)
(***************************************************************************)
MaxCalls == 3       \* request() calls made on one WorkerClient
MaxDispatch == 3    \* handle() calls made on one dispatcher
MaxMessages == 3    \* messages posted to one worker
MaxSystemCalls == 3 \* request() calls made on a WorkerClient connected to its worker
MaxMutations == 2   \* mutations issued through the hooks of one WorkerClient
MaxRegistryCalls == 3  \* requests made through getWorkerClient(workerUrl)
MaxCommands == 2    \* commands sent to a type-tagged worker
MaxRestarts == 1    \* restarts of a type-tagged worker

Undefined == "undefined"

(***************************************************************************)
(* Values crossing the channel.  A message is a record; a field the        *)
(* message does not carry reads as undefined, as a property access does.   *)
(***************************************************************************)
Field(msg, f) == IF f \in DOMAIN msg THEN msg[f] ELSE Undefined

\* JavaScript truthiness of a message field: a string field is truthy unless it is
\* missing or empty, a boolean field when it is present and true.
TruthyString(msg, f) == f \in DOMAIN msg /\ msg[f] # "" /\ msg[f] # Undefined
TruthyFlag(msg, f) == f \in DOMAIN msg /\ msg[f] = TRUE

\* `${n}`: the decimal text of a number.
TemplateString(n) == ToString(n)

\* The calls the page makes: useUsers and useAddUser.
ClientCalls == {<<"getUsers", Undefined>>, <<"addUser", "{name:'Ann',email:'ann@x.io',age:30}">>}
DataValues == {"[]", "{id:1}"}
ErrorValues == {"boom", ""}

\* The ids a message can carry: those request() can issue and one it never issues.
MessageIds == {TemplateString(i) : i \in 1..(MaxCalls + 1)}

\* What worker.onmessage can be given: Response Envelopes (well formed, or with the
\* error string empty or missing) for any id, and the worker's log messages, which
\* carry no id.
SuccessEnvelopes == {[id |-> i, success |-> TRUE, data |-> d] : i \in MessageIds, d \in DataValues}
FailureEnvelopes ==
    {[id |-> i, success |-> FALSE, error |-> e] : i \in MessageIds, e \in ErrorValues}
    \cup {[id |-> i, success |-> FALSE] : i \in MessageIds}
LogMessages == {[type |-> "log", payload |-> "Database ready"]}
ClientMessages == SuccessEnvelopes \cup FailureEnvelopes \cup LogMessages

(***************************************************************************)
(* WorkerClient                                                            *)
(***************************************************************************)
\* The promise built by request(): its state, and how often each callback ran.
NewCall(id) ==
    [id |-> id, state |-> "pending", value |-> Undefined, nResolve |-> 0, nReject |-> 0]

\* pending.resolve(data): the promise's resolve function (first settlement wins).
resolve(call, data) ==
    IF call.state = "pending"
    THEN [call EXCEPT !.state = "fulfilled", !.value = data, !.nResolve = @ + 1]
    ELSE [call EXCEPT !.nResolve = @ + 1]

\* pending.reject(new Error(message)): the promise's reject function.
reject(call, message) ==
    IF call.state = "pending"
    THEN [call EXCEPT !.state = "rejected", !.value = message, !.nReject = @ + 1]
    ELSE [call EXCEPT !.nReject = @ + 1]

\* new Error(response.error): the fallback for a missing or empty error string left out.
ErrorMessageNoFallback(response) == Field(response, "error")

\* response.error || "Unknown error"
ErrorMessage(response) ==
    IF TruthyString(response, "error") THEN response.error ELSE "Unknown error"

\* Map.delete(key)
MapDelete(map, key) == [k \in DOMAIN map \ {key} |-> map[k]]

\* Map.set(key, value)
MapSet(map, key, value) == [k \in DOMAIN map \cup {key} |-> IF k = key THEN value ELSE map[k]]

\* The settlement with the success flag not looked at: pending.resolve(response.data).
SettleAlwaysResolves(cs, k, response) ==
    [cs EXCEPT ![k] = resolve(@, Field(response, "data"))]

\* The settlement handleMessage performs on call k.
Settle(cs, k, response) ==
    [cs EXCEPT ![k] = IF TruthyFlag(response, "success")
                      THEN resolve(@, Field(response, "data"))
                      ELSE reject(@, ErrorMessage(response))]

\* handleMessage taking the oldest entry of the table instead of the entry of the
\* response's id.
handleMessageByArrival(pending, cs, response) ==
    IF DOMAIN pending = {}
    THEN [pendingRequests |-> pending, calls |-> cs]
    ELSE LET first == CHOOSE i \in DOMAIN pending : \A j \in DOMAIN pending : pending[i] <= pending[j]
         IN [pendingRequests |-> MapDelete(pending, first),
             calls |-> Settle(cs, pending[first], response)]

\* handleMessage without this.pendingRequests.delete(response.id).
handleMessageNoDelete(pending, cs, response) ==
    LET id == Field(response, "id") IN
    IF id \notin DOMAIN pending
    THEN [pendingRequests |-> pending, calls |-> cs]
    ELSE [pendingRequests |-> pending, calls |-> Settle(cs, pending[id], response)]

\* handleMessage treating a message that matches no entry as a broken channel: it
\* rejects every pending call and clears the table.
RECURSIVE RejectAll(_, _)
RejectAll(cs, ks) ==
    IF ks = {} THEN cs
    ELSE LET k == CHOOSE x \in ks : TRUE
         IN RejectAll([cs EXCEPT ![k] = reject(@, "Unknown error")], ks \ {k})
handleMessageRejectStray(pending, cs, response) ==
    LET id == Field(response, "id") IN
    IF id \notin DOMAIN pending
    THEN [pendingRequests |-> <<>>, calls |-> RejectAll(cs, {pending[i] : i \in DOMAIN pending})]
    ELSE [pendingRequests |-> MapDelete(pending, id), calls |-> Settle(cs, pending[id], response)]

\* handleMessage with this.pendingRequests.clear() in place of delete(response.id).
handleMessageClearsTable(pending, cs, response) ==
    LET id == Field(response, "id") IN
    IF id \notin DOMAIN pending
    THEN [pendingRequests |-> pending, calls |-> cs]
    ELSE [pendingRequests |-> <<>>, calls |-> Settle(cs, pending[id], response)]

\* handleMessage deleting the entry on the success path only: a failure response
\* rejects the call and leaves its entry in the table.
handleMessageKeepsFailedEntry(pending, cs, response) ==
    LET id == Field(response, "id") IN
    IF id \notin DOMAIN pending
    THEN [pendingRequests |-> pending, calls |-> cs]
    ELSE [pendingRequests |-> IF TruthyFlag(response, "success")
                              THEN MapDelete(pending, id) ELSE pending,
          calls |-> Settle(cs, pending[id], response)]

\* WorkerClient.handleMessage: the Pending Call Table and the calls after the event.
handleMessage(pending, cs, response) ==
    LET id == Field(response, "id") IN
    IF id \notin DOMAIN pending
    THEN [pendingRequests |-> pending, calls |-> cs]
    ELSE [pendingRequests |-> MapDelete(pending, id), calls |-> Settle(cs, pending[id], response)]

\* The counter wrapping around after two ids.
NextRequestIdWraps(counter) == (counter % 2) + 1

\* const id = `${++this.requestId}`
NextRequestId(counter) == counter + 1

\* request() that hands the envelope to the channel and stores no entry for its id.
RequestWithoutEntry(route, input) ==
    /\ Len(calls) < MaxCalls
    /\ LET n == NextRequestId(requestId)
           id == TemplateString(n)
       IN /\ requestId' = n
          /\ calls' = Append(calls, NewCall(id))
          /\ toWorker' = Append(toWorker, [id |-> id, route |-> route, input |-> input])
          /\ lastEvent' = [op |-> "request", id |-> id]
    /\ UNCHANGED <<pendingRequests, terminated>>

\* WorkerClient.request(route, input)
Request(route, input) ==
    /\ Len(calls) < MaxCalls
    /\ LET n == NextRequestId(requestId)
           id == TemplateString(n)
       IN /\ requestId' = n
          /\ calls' = Append(calls, NewCall(id))
          /\ pendingRequests' = MapSet(pendingRequests, id, Len(calls) + 1)
          /\ toWorker' = Append(toWorker, [id |-> id, route |-> route, input |-> input])
          /\ lastEvent' = [op |-> "request", id |-> id]
    /\ UNCHANGED terminated

\* worker.onmessage = this.handleMessage.bind(this): a message event of the worker.
\* A terminated worker delivers no further message events.
OnMessage(response) ==
    /\ ~terminated
    /\ LET after == handleMessage(pendingRequests, calls, response)
       IN /\ pendingRequests' = after.pendingRequests
          /\ calls' = after.calls
    /\ lastEvent' = [op |-> "message", msg |-> response]
    /\ UNCHANGED <<requestId, toWorker, terminated>>

\* terminate() as a teardown that rejects every pending call and clears the table.
terminateRejectsPending(pending, cs) ==
    [pendingRequests |-> <<>>, calls |-> RejectAll(cs, {pending[i] : i \in DOMAIN pending})]

\* WorkerClient.terminate(): this.worker.terminate() and nothing else; the Pending
\* Call Table and the calls after it.
terminate(pending, cs) == [pendingRequests |-> pending, calls |-> cs]

Terminate ==
    /\ LET after == terminate(pendingRequests, calls)
       IN /\ pendingRequests' = after.pendingRequests
          /\ calls' = after.calls
    /\ terminated' = TRUE
    /\ lastEvent' = [op |-> "terminate"]
    /\ UNCHANGED <<requestId, toWorker>>

InitClient ==
    /\ requestId = 0
    /\ pendingRequests = <<>>
    /\ calls = <<>>
    /\ toWorker = <<>>
    /\ terminated = FALSE
    /\ lastEvent = [op |-> "new"]

(***************************************************************************)
(* Procedures and routers.  JavaScript values on the wire are written as   *)
(* their text.                                                             *)
(***************************************************************************)
ValidUser == "{name:'Ann',email:'ann@x.io',age:30}"
InvalidUser == "{name:'Bob',email:'bob',age:-1}"
ValidItem == "{id:1}"
Inputs == {Undefined, ValidUser, InvalidUser, ValidItem}

\* What the database collaborator does to the operation a handler awaits: it
\* completes, or fails with an error that has a message, or with one that has none.
DbOutcomes == {"ok", "error", "errorNoMessage"}
DbErrorMessage == "disk I/O error"

\* The text of a row, and of the rows a select returns.
RowText(row) == "{id:" \o ToString(row.id) \o ",name:'" \o row.name \o "'}"
RECURSIVE RowsText(_)
RowsText(rows) ==
    IF rows = <<>> THEN ""
    ELSE RowText(Head(rows)) \o (IF Len(rows) > 1 THEN "," ELSE "") \o RowsText(Tail(rows))
SelectText(rows) == "[" \o RowsText(rows) \o "]"

SeedRow == [id |-> 1, name |-> "John Doe"]
NameOf(input) == IF input = ValidUser THEN "Ann" ELSE "?"

\* z.object({name: z.string(), email: z.string().email(), age: z.number().int().positive()})
\* and z.object({id: z.number()}): safeParse of the inputs of the model.
SafeParse(schema, input) ==
    CASE schema = "addUserSchema" ->
            IF input = ValidUser THEN [success |-> TRUE, data |-> input]
            ELSE IF input = InvalidUser
                 THEN [success |-> FALSE, error |-> "email: Invalid email, age: Number must be greater than 0"]
                 ELSE IF input = Undefined
                      THEN [success |-> FALSE, error |-> "Required"]
                      ELSE [success |-> FALSE, error |-> "name: Required, email: Required, age: Required"]
      [] schema = "itemSchema" ->
            IF input = ValidItem THEN [success |-> TRUE, data |-> input]
            ELSE IF input = Undefined
                 THEN [success |-> FALSE, error |-> "Required"]
                 ELSE [success |-> FALSE, error |-> "id: Required"]

\* The handlers: the value returned or the failure thrown, and the table afterwards.
Returned(value, rows) == [threw |-> FALSE, value |-> value, users |-> rows]
Threw(message, rows) == [threw |-> TRUE, message |-> message, users |-> rows]
DbFailure(outcome, rows) ==
    Threw(IF outcome = "error" THEN DbErrorMessage ELSE Undefined, rows)

\* getUsers: return await context.db.select().from(users)
GetUsersHandler(input, rows, outcome) ==
    IF outcome = "ok" THEN Returned(SelectText(rows), rows) ELSE DbFailure(outcome, rows)

\* addUser: const [newUser] = await context.db.insert(users).values(input).returning()
AddUserHandler(input, rows, outcome) ==
    IF outcome = "ok"
    THEN LET row == [id |-> Len(rows) + 1, name |-> NameOf(input)]
         IN Returned(RowText(row), Append(rows, row))
    ELSE DbFailure(outcome, rows)

\* simpleQueryExample: return "Hello from worker!"
GreetingHandler(input, rows, outcome) == Returned("Hello from worker!", rows)

\* errorHandlingExample: item is null, so throw new Error("Item not found")
DeleteItemHandler(input, rows, outcome) == Threw("Item not found", rows)

RunHandler(name, input, rows, outcome) ==
    CASE name = "getUsers" -> GetUsersHandler(input, rows, outcome)
      [] name = "addUser" -> AddUserHandler(input, rows, outcome)
      [] name = "greeting" -> GreetingHandler(input, rows, outcome)
      [] name = "deleteItem" -> DeleteItemHandler(input, rows, outcome)

NoSchema == "none"

\* query(config) and mutation(config)
query(schema, handler) == [type |-> "query", input |-> schema, handler |-> handler]
mutation(schema, handler) == [type |-> "mutation", input |-> schema, handler |-> handler]

\* createRouter(routes)
createRouter(routes) == routes

\* The procedure map of the documented routers.
AppRoutes ==
    [getUsers |-> query(NoSchema, "getUsers"),
     addUser |-> mutation("addUserSchema", "addUser"),
     greeting |-> query(NoSchema, "greeting"),
     deleteItem |-> mutation("itemSchema", "deleteItem")]

RouteNames == DOMAIN AppRoutes \cup {"doesNotExist"}

(***************************************************************************)
(* The dispatcher returned by createWorkerHandler(router).                 *)
(***************************************************************************)
FallbackError == "Unknown error"
UnknownRouteError(route) == "Unknown route: " \o route

SuccessResponse(id, data) == [id |-> id, success |-> TRUE, data |-> data]
FailureResponse(id, message) == [id |-> id, success |-> FALSE, error |-> message]

\* The outcome of one call of handle: the Response Envelopes it produced, whether a
\* failure escaped it, the handler invocations it made and the table afterwards.
Handled(responses, invoked, rows) ==
    [responses |-> responses, thrown |-> FALSE, invoked |-> invoked, users |-> rows]
Escaped(invoked, rows) ==
    [responses |-> <<>>, thrown |-> TRUE, invoked |-> invoked, users |-> rows]

\* The message of a thrown failure, or the fallback when it carries none.
FailureText(result) ==
    IF result.message # Undefined /\ result.message # "" THEN result.message ELSE FallbackError

\* The record of one handler invocation: the input it was given and how it ended.
Invocation(procedure, input, result) ==
    [handler |-> procedure.handler, input |-> input, threw |-> result.threw,
     outcome |-> IF result.threw THEN result.message ELSE result.value]

\* Validation that gives a procedure without a validator an empty object in place of
\* a missing payload.
ValidateDefaultsInput(procedure, input) ==
    IF procedure.input = NoSchema
    THEN [success |-> TRUE, data |-> IF input = Undefined THEN "{}" ELSE input]
    ELSE SafeParse(procedure.input, input)

\* The procedure's validator applied to the payload; without one the payload passes.
Validate(procedure, input) ==
    IF procedure.input = NoSchema
    THEN [success |-> TRUE, data |-> input]
    ELSE SafeParse(procedure.input, input)

\* handle with the handler's failure not caught.
handleNoCatch(rt, request, rows, outcome) ==
    IF request.route \notin DOMAIN rt
    THEN Handled(<<FailureResponse(request.id, UnknownRouteError(request.route))>>, <<>>, rows)
    ELSE LET procedure == rt[request.route]
             parsed == Validate(procedure, request.input)
         IN IF ~parsed.success
            THEN Handled(<<FailureResponse(request.id, parsed.error)>>, <<>>, rows)
            ELSE LET result == RunHandler(procedure.handler, parsed.data, rows, outcome)
                     invoked == <<Invocation(procedure, parsed.data, result)>>
                 IN IF result.threw
                    THEN Escaped(invoked, result.users)
                    ELSE Handled(<<SuccessResponse(request.id, result.value)>>,
                                 invoked, result.users)

\* handle reading the procedure of an unknown route through optional chaining: no
\* handler, and a success envelope with no data.
handleUnknownAsSuccess(rt, request, rows, outcome) ==
    IF request.route \notin DOMAIN rt
    THEN Handled(<<SuccessResponse(request.id, Undefined)>>, <<>>, rows)
    ELSE LET procedure == rt[request.route]
             parsed == Validate(procedure, request.input)
         IN IF ~parsed.success
            THEN Handled(<<FailureResponse(request.id, parsed.error)>>, <<>>, rows)
            ELSE LET result == RunHandler(procedure.handler, parsed.data, rows, outcome)
                     invoked == <<Invocation(procedure, parsed.data, result)>>
                 IN IF result.threw
                    THEN Handled(<<FailureResponse(request.id, FailureText(result))>>,
                                 invoked, result.users)
                    ELSE Handled(<<SuccessResponse(request.id, result.value)>>,
                                 invoked, result.users)

\* handle reporting the validation failure after it has run the handler on the raw
\* payload.
handleValidateLate(rt, request, rows, outcome) ==
    IF request.route \notin DOMAIN rt
    THEN Handled(<<FailureResponse(request.id, UnknownRouteError(request.route))>>, <<>>, rows)
    ELSE LET procedure == rt[request.route]
             parsed == Validate(procedure, request.input)
             given == IF parsed.success THEN parsed.data ELSE request.input
             result == RunHandler(procedure.handler, given, rows, outcome)
             invoked == <<Invocation(procedure, given, result)>>
         IN IF ~parsed.success
            THEN Handled(<<FailureResponse(request.id, parsed.error)>>, invoked, result.users)
            ELSE IF result.threw
                 THEN Handled(<<FailureResponse(request.id, FailureText(result))>>,
                              invoked, result.users)
                 ELSE Handled(<<SuccessResponse(request.id, result.value)>>,
                              invoked, result.users)

\* handle answering a success with the handler's result object instead of its value.
handleWrapsData(rt, request, rows, outcome) ==
    IF request.route \notin DOMAIN rt
    THEN Handled(<<FailureResponse(request.id, UnknownRouteError(request.route))>>, <<>>, rows)
    ELSE LET procedure == rt[request.route]
             parsed == Validate(procedure, request.input)
         IN IF ~parsed.success
            THEN Handled(<<FailureResponse(request.id, parsed.error)>>, <<>>, rows)
            ELSE LET result == RunHandler(procedure.handler, parsed.data, rows, outcome)
                     invoked == <<Invocation(procedure, parsed.data, result)>>
                 IN IF result.threw
                    THEN Handled(<<FailureResponse(request.id, FailureText(result))>>,
                                 invoked, result.users)
                    ELSE Handled(<<SuccessResponse(request.id, "{data:" \o result.value \o "}")>>,
                                 invoked, result.users)

\* handle answering every handler failure with the fallback string.
handleDropsMessage(rt, request, rows, outcome) ==
    IF request.route \notin DOMAIN rt
    THEN Handled(<<FailureResponse(request.id, UnknownRouteError(request.route))>>, <<>>, rows)
    ELSE LET procedure == rt[request.route]
             parsed == Validate(procedure, request.input)
         IN IF ~parsed.success
            THEN Handled(<<FailureResponse(request.id, parsed.error)>>, <<>>, rows)
            ELSE LET result == RunHandler(procedure.handler, parsed.data, rows, outcome)
                     invoked == <<Invocation(procedure, parsed.data, result)>>
                 IN IF result.threw
                    THEN Handled(<<FailureResponse(request.id, FallbackError)>>,
                                 invoked, result.users)
                    ELSE Handled(<<SuccessResponse(request.id, result.value)>>,
                                 invoked, result.users)

\* handle reporting a handler's failure together with the size of the table its
\* context holds.
handleReportsContext(rt, request, rows, outcome) ==
    IF request.route \notin DOMAIN rt
    THEN Handled(<<FailureResponse(request.id, UnknownRouteError(request.route))>>, <<>>, rows)
    ELSE LET procedure == rt[request.route]
             parsed == Validate(procedure, request.input)
         IN IF ~parsed.success
            THEN Handled(<<FailureResponse(request.id, parsed.error)>>, <<>>, rows)
            ELSE LET result == RunHandler(procedure.handler, parsed.data, rows, outcome)
                     invoked == <<Invocation(procedure, parsed.data, result)>>
                 IN IF result.threw
                    THEN Handled(<<FailureResponse(request.id,
                                     FailureText(result) \o " (" \o ToString(Len(rows)) \o " rows)")>>,
                                 invoked, result.users)
                    ELSE Handled(<<SuccessResponse(request.id, result.value)>>,
                                 invoked, result.users)

\* handle running a query on a read-only snapshot: what a query's handler writes to
\* the table is discarded.
handleQueriesReadOnly(rt, request, rows, outcome) ==
    IF request.route \notin DOMAIN rt
    THEN Handled(<<FailureResponse(request.id, UnknownRouteError(request.route))>>, <<>>, rows)
    ELSE LET procedure == rt[request.route]
             parsed == Validate(procedure, request.input)
         IN IF ~parsed.success
            THEN Handled(<<FailureResponse(request.id, parsed.error)>>, <<>>, rows)
            ELSE LET result == RunHandler(procedure.handler, parsed.data, rows, outcome)
                     invoked == <<Invocation(procedure, parsed.data, result)>>
                     after == IF procedure.type = "query" THEN rows ELSE result.users
                 IN IF result.threw
                    THEN Handled(<<FailureResponse(request.id, FailureText(result))>>,
                                 invoked, after)
                    ELSE Handled(<<SuccessResponse(request.id, result.value)>>,
                                 invoked, after)

\* handle(request): look the route up, validate the input, run the handler, and turn
\* its result or its failure into the Response Envelope.
handle(rt, request, rows, outcome) ==
    IF request.route \notin DOMAIN rt
    THEN Handled(<<FailureResponse(request.id, UnknownRouteError(request.route))>>, <<>>, rows)
    ELSE LET procedure == rt[request.route]
             parsed == Validate(procedure, request.input)
         IN IF ~parsed.success
            THEN Handled(<<FailureResponse(request.id, parsed.error)>>, <<>>, rows)
            ELSE LET result == RunHandler(procedure.handler, parsed.data, rows, outcome)
                     invoked == <<Invocation(procedure, parsed.data, result)>>
                 IN IF result.threw
                    THEN Handled(<<FailureResponse(request.id, FailureText(result))>>,
                                 invoked, result.users)
                    ELSE Handled(<<SuccessResponse(request.id, result.value)>>,
                                 invoked, result.users)

\* createWorkerHandler(router)
createWorkerHandler(rt) == rt

\* One call of the dispatcher, from the request to its Response Envelope.
Dispatch(route, input, outcome) ==
    /\ Len(dispatched) < MaxDispatch
    /\ LET request == [id |-> TemplateString(Len(dispatched) + 1), route |-> route, input |-> input]
           result == handle(router, request, users, outcome)
       IN /\ dispatched' = Append(dispatched, [request |-> request, result |-> result])
          /\ users' = result.users
    /\ UNCHANGED router

InitDispatch ==
    /\ router = createRouter(AppRoutes)
    /\ users = <<SeedRow>>
    /\ dispatched = <<>>

(***************************************************************************)
(* The router-based workers: the init IIFE and the message listener.       *)
(***************************************************************************)
NotReadyError == "Database not ready"

\* The router before createAppRouter has run.
NoRouter == <<>>

\* log(...) and error(...) of lib/workerUtils post a log message to the page.
LogMessage(text) == [type |-> "log", payload |-> text]

\* What the page posts to the worker: Request Envelopes, and a message with no route.
WorkerCalls ==
    {<<"getUsers", Undefined>>, <<"addUser", ValidUser>>,
     <<"deleteItem", ValidItem>>, <<"doesNotExist", Undefined>>}
NoRouteMessage == [type |-> "getUsers"]
EmptyRouteMessage == [id |-> "9", route |-> "", input |-> Undefined]
NoRouteMessages == {NoRouteMessage, EmptyRouteMessage}

NumSent == Len(inbox) + Len(received)

\* The page posts a Request Envelope to the worker.
Send(call) ==
    /\ NumSent < MaxMessages
    /\ inbox' = Append(inbox, [id |-> TemplateString(NumSent + 1), route |-> call[1], input |-> call[2]])
    /\ UNCHANGED <<variant, initPc, isDbReady, handleRequest, requestQueue, received,
                   awaiting, draining, posted, router, users, dispatched>>

\* The page posts a message that is no Request Envelope.
SendOther ==
    /\ NumSent < MaxMessages
    /\ \E message \in NoRouteMessages : inbox' = Append(inbox, message)
    /\ UNCHANGED <<variant, initPc, isDbReady, handleRequest, requestQueue, received,
                   awaiting, draining, posted, router, users, dispatched>>

\* A setup that sets isDbReady as soon as the dispatcher exists, before the table is
\* created and seeded.
InitDbOpenedSetsReady ==
    /\ initPc = "waitReady"
    /\ router' = createRouter(AppRoutes)
    /\ handleRequest' = TRUE
    /\ isDbReady' = TRUE
    /\ initPc' = "createTable"
    /\ UNCHANGED <<variant, requestQueue, inbox, received, awaiting, draining,
                   posted, users, dispatched>>

\* await client.waitReady / await initDb() completes: the router and the dispatcher
\* are built and CREATE TABLE IF NOT EXISTS is issued.
InitDbOpened ==
    /\ initPc = "waitReady"
    /\ router' = createRouter(AppRoutes)
    /\ handleRequest' = TRUE
    /\ initPc' = "createTable"
    /\ UNCHANGED <<variant, isDbReady, requestQueue, inbox, received, awaiting, draining,
                   posted, users, dispatched>>

\* await db.execute(CREATE TABLE IF NOT EXISTS users ...) completes; the select is issued.
InitTableCreated ==
    /\ initPc = "createTable"
    /\ initPc' = "select"
    /\ UNCHANGED <<variant, isDbReady, handleRequest, requestQueue, inbox, received,
                   awaiting, draining, posted, router, users, dispatched>>

\* The drain loop taking the newest queued request: requestQueue.pop().
DrainNextNewestFirst(queue) ==
    IF queue # <<>>
    THEN [initPc |-> "drain", draining |-> <<queue[Len(queue)]>>,
          requestQueue |-> SubSeq(queue, 1, Len(queue) - 1)]
    ELSE [initPc |-> "done", draining |-> <<>>, requestQueue |-> queue]

\* while (requestQueue.length > 0) { const queuedRequest = requestQueue.shift(); ...
\* the loop's next position: awaiting handleRequest(queuedRequest), or past the loop.
DrainNext(queue) ==
    IF queue # <<>>
    THEN [initPc |-> "drain", draining |-> <<Head(queue)>>, requestQueue |-> Tail(queue)]
    ELSE [initPc |-> "done", draining |-> <<>>, requestQueue |-> queue]

\* isDbReady = true; log("Database ready"); and, in the queue variant, the drain loop.
BecomeReady ==
    /\ isDbReady' = TRUE
    /\ posted' = Append(posted, LogMessage("Database ready"))
    /\ IF variant = "queue"
       THEN LET next == DrainNext(requestQueue)
            IN /\ initPc' = next.initPc
               /\ draining' = next.draining
               /\ requestQueue' = next.requestQueue
       ELSE /\ initPc' = "done"
            /\ UNCHANGED <<draining, requestQueue>>

\* await db.select().from(users) completes: seed an empty table, or become ready.
InitSelected ==
    /\ initPc = "select"
    /\ IF Len(users) = 0
       THEN /\ initPc' = "insert"
            /\ UNCHANGED <<isDbReady, posted, draining, requestQueue>>
       ELSE BecomeReady
    /\ UNCHANGED <<variant, handleRequest, inbox, received, awaiting, router, users, dispatched>>

\* await db.insert(users).values({name: "John Doe", ...}) completes.
InitSeeded ==
    /\ initPc = "insert"
    /\ users' = Append(users, SeedRow)
    /\ BecomeReady
    /\ UNCHANGED <<variant, handleRequest, inbox, received, awaiting, router, dispatched>>

\* An awaited step of the setup rejects: .catch((err) => error("Init failed:", err.message))
InitFailed ==
    /\ initPc \in {"waitReady", "createTable", "select", "insert"}
    /\ initPc' = "failed"
    /\ posted' = Append(posted, LogMessage("Init failed:"))
    /\ UNCHANGED <<variant, isDbReady, handleRequest, requestQueue, inbox, received,
                   awaiting, draining, router, users, dispatched>>

\* The drain loop's await handleRequest(queuedRequest) completes: postMessage(response),
\* then the loop condition again.
DrainAnswered(outcome) ==
    /\ initPc = "drain"
    /\ LET request == draining[1]
           result == handle(router, request, users, outcome)
           next == DrainNext(requestQueue)
       IN /\ posted' = posted \o result.responses
          /\ users' = result.users
          /\ dispatched' = Append(dispatched, [request |-> request, result |-> result,
                                                via |-> "drain"])
          /\ initPc' = next.initPc
          /\ draining' = next.draining
          /\ requestQueue' = next.requestQueue
    /\ UNCHANGED <<variant, isDbReady, handleRequest, inbox, received, awaiting, router>>

\* The listener of the reject variant testing only !handleRequest: a request that
\* arrives between createWorkerHandler and isDbReady = true is dispatched.
ListenRejectChecksHandlerOnly ==
    /\ variant = "reject"
    /\ inbox # <<>>
    /\ LET request == Head(inbox)
       IN /\ inbox' = Tail(inbox)
          /\ received' = Append(received, request)
          /\ IF ~TruthyString(request, "route")
             THEN UNCHANGED <<posted, awaiting>>
             ELSE IF ~handleRequest
                  THEN /\ posted' = Append(posted, FailureResponse(request.id, NotReadyError))
                       /\ UNCHANGED awaiting
                  ELSE /\ awaiting' = awaiting \cup {request}
                       /\ UNCHANGED posted
    /\ UNCHANGED <<variant, initPc, isDbReady, handleRequest, requestQueue, draining,
                   router, users, dispatched>>

\* The listener of the reject variant receives the next message.
ListenReject ==
    /\ variant = "reject"
    /\ inbox # <<>>
    /\ LET request == Head(inbox)
       IN /\ inbox' = Tail(inbox)
          /\ received' = Append(received, request)
          /\ IF ~TruthyString(request, "route")
             THEN UNCHANGED <<posted, awaiting>>
             ELSE IF ~isDbReady \/ ~handleRequest
                  THEN /\ posted' = Append(posted, FailureResponse(request.id, NotReadyError))
                       /\ UNCHANGED awaiting
                  ELSE /\ awaiting' = awaiting \cup {request}
                       /\ UNCHANGED posted
    /\ UNCHANGED <<variant, initPc, isDbReady, handleRequest, requestQueue, draining,
                   router, users, dispatched>>

\* The listener of the queue variant without the test of event.data.route.
ListenQueueNoRouteTest ==
    /\ variant = "queue"
    /\ inbox # <<>>
    /\ LET request == Head(inbox)
       IN /\ inbox' = Tail(inbox)
          /\ received' = Append(received, request)
          /\ IF ~isDbReady \/ ~handleRequest
             THEN /\ requestQueue' = Append(requestQueue, request)
                  /\ posted' = Append(posted, LogMessage("Request queued: " \o Field(request, "route")))
                  /\ UNCHANGED awaiting
             ELSE /\ awaiting' = awaiting \cup {request}
                  /\ UNCHANGED <<posted, requestQueue>>
    /\ UNCHANGED <<variant, initPc, isDbReady, handleRequest, draining, router, users, dispatched>>

\* The listener of the queue variant receives the next message.
ListenQueue ==
    /\ variant = "queue"
    /\ inbox # <<>>
    /\ LET request == Head(inbox)
       IN /\ inbox' = Tail(inbox)
          /\ received' = Append(received, request)
          /\ IF ~TruthyString(request, "route")
             THEN UNCHANGED <<posted, awaiting, requestQueue>>
             ELSE IF ~isDbReady \/ ~handleRequest
                  THEN /\ requestQueue' = Append(requestQueue, request)
                       /\ posted' = Append(posted, LogMessage("Request queued: " \o request.route))
                       /\ UNCHANGED awaiting
                  ELSE /\ awaiting' = awaiting \cup {request}
                       /\ UNCHANGED <<posted, requestQueue>>
    /\ UNCHANGED <<variant, initPc, isDbReady, handleRequest, draining, router, users, dispatched>>

\* A dispatch that unregisters the route whose handler threw.
ListenAnsweredDropsFailedRoute(request, outcome) ==
    /\ request \in awaiting
    /\ LET result == handle(router, request, users, outcome)
           failed == result.invoked # <<>> /\ result.invoked[1].threw
       IN /\ posted' = posted \o result.responses
          /\ users' = result.users
          /\ dispatched' = Append(dispatched, [request |-> request, result |-> result,
                                                via |-> "listener"])
          /\ router' = IF failed
                       THEN [name \in DOMAIN router \ {request.route} |-> router[name]]
                       ELSE router
    /\ awaiting' = awaiting \ {request}
    /\ UNCHANGED <<variant, initPc, isDbReady, handleRequest, requestQueue, inbox, received,
                   draining>>

\* A listener that keeps the request in a variable shared by all its runs, so that the
\* response carries the id of the request received last.
ListenAnsweredSharedRequest(request, outcome) ==
    /\ request \in awaiting
    /\ LET result == handle(router, request, users, outcome)
           latest == received[Len(received)]
       IN /\ posted' = posted \o [i \in DOMAIN result.responses |->
                                     [result.responses[i] EXCEPT !.id = Field(latest, "id")]]
          /\ users' = result.users
          /\ dispatched' = Append(dispatched, [request |-> request, result |-> result,
                                                via |-> "listener"])
    /\ awaiting' = awaiting \ {request}
    /\ UNCHANGED <<variant, initPc, isDbReady, handleRequest, requestQueue, inbox, received,
                   draining, router>>

\* The listener's await handleRequest(request) completes: postMessage(response).
ListenAnswered(request, outcome) ==
    /\ request \in awaiting
    /\ LET result == handle(router, request, users, outcome)
       IN /\ posted' = posted \o result.responses
          /\ users' = result.users
          /\ dispatched' = Append(dispatched, [request |-> request, result |-> result,
                                                via |-> "listener"])
    /\ awaiting' = awaiting \ {request}
    /\ UNCHANGED <<variant, initPc, isDbReady, handleRequest, requestQueue, inbox, received,
                   draining, router>>

\* The worker module has been loaded: the IIFE is suspended in its first await, on a
\* database that is new or holds the rows of an earlier run.
InitWorker ==
    /\ variant \in {"reject", "queue"}
    /\ initPc = "waitReady"
    /\ isDbReady = FALSE
    /\ handleRequest = FALSE
    /\ requestQueue = <<>>
    /\ inbox = <<>>
    /\ received = <<>>
    /\ awaiting = {}
    /\ draining = <<>>
    /\ posted = <<>>
    /\ router = NoRouter
    /\ users \in {<<>>, <<SeedRow>>}
    /\ dispatched = <<>>

(***************************************************************************)
(* The React Query mutation hooks of workerClient.ts.  An options object   *)
(* is a record; onSuccess tells whether the caller supplied that callback. *)
(***************************************************************************)
\* The query keys an options object asks to invalidate: if (invalidateQueries) ...
InvalidationList(options) ==
    IF "invalidateQueries" \in DOMAIN options THEN options.invalidateQueries ELSE <<>>

\* {...options, invalidateQueries: keys}
WithInvalidateQueries(options, keys) ==
    [onSuccess |-> options.onSuccess, invalidateQueries |-> keys]

\* useMutation({..., onSuccess: wrapper, ...mutationOptions}): the caller's onSuccess,
\* spread after the wrapper, replaces it.
MutationObserverCallerWins(route, keys, mutationOptions) ==
    [route |-> route,
     invalidates |-> IF mutationOptions.onSuccess THEN <<>> ELSE keys,
     callsOnSuccess |-> mutationOptions.onSuccess,
     status |-> "idle"]

\* useMutation({mutationFn, ...mutationOptions, onSuccess: (...args) => {...}}): the
\* observer whose onSuccess invalidates the keys and then calls the caller's onSuccess.
MutationObserver(route, keys, mutationOptions) ==
    [route |-> route,
     invalidates |-> keys,
     callsOnSuccess |-> mutationOptions.onSuccess,
     status |-> "idle"]

\* useWorkerMutation(route, options) and the route helper's mutate(options)
useWorkerMutation(route, options) == MutationObserver(route, InvalidationList(options), options)
mutate(route, options) == MutationObserver(route, InvalidationList(options), options)

\* useWorkerMutation(route, options) of the single-router client: always ["getUsers"]
useWorkerMutationLegacy(route, options) == MutationObserver(route, <<"getUsers">>, options)

\* useAddUser, useUpdateUser, useDeleteUser
useAddUser(options) == mutate("addUser", WithInvalidateQueries(options, <<"getUsers">>))
useUpdateUser(options) == mutate("updateUser", WithInvalidateQueries(options, <<"getUsers">>))
useDeleteUser(options) == mutate("deleteUser", WithInvalidateQueries(options, <<"getUsers">>))

\* The hook calls of the model, and the observer each one returns.
CallerOptions ==
    {[onSuccess |-> FALSE],
     [onSuccess |-> TRUE, invalidateQueries |-> <<>>],
     [onSuccess |-> TRUE, invalidateQueries |-> <<"getUsers", "getUser">>],
     [onSuccess |-> FALSE, invalidateQueries |-> <<"getUsers", "getUser">>]}
HookCalls ==
    {[hook |-> "useWorkerMutation", route |-> "addUser", options |-> o] : o \in CallerOptions}
    \cup {[hook |-> "mutate", route |-> "updateUser", options |-> o] :
             o \in {[onSuccess |-> TRUE, invalidateQueries |-> <<"getUsers">>]}}
    \cup {[hook |-> "useWorkerMutationLegacy", route |-> "addUser", options |-> o] :
             o \in {[onSuccess |-> TRUE]}}
    \cup {[hook |-> "useAddUser", route |-> "addUser", options |-> [onSuccess |-> TRUE]],
          [hook |-> "useUpdateUser", route |-> "updateUser", options |-> [onSuccess |-> FALSE]],
          [hook |-> "useDeleteUser", route |-> "deleteUser", options |-> [onSuccess |-> FALSE]]}
ObserverOf(hookCall) ==
    CASE hookCall.hook = "useWorkerMutation" -> useWorkerMutation(hookCall.route, hookCall.options)
      [] hookCall.hook = "mutate" -> mutate(hookCall.route, hookCall.options)
      [] hookCall.hook = "useWorkerMutationLegacy" ->
             useWorkerMutationLegacy(hookCall.route, hookCall.options)
      [] hookCall.hook = "useAddUser" -> useAddUser(hookCall.options)
      [] hookCall.hook = "useUpdateUser" -> useUpdateUser(hookCall.options)
      [] hookCall.hook = "useDeleteUser" -> useDeleteUser(hookCall.options)

\* queryClient.invalidateQueries({queryKey: [key]}) and the caller's onSuccess(data).
Invalidation(call, key) == [call |-> call, effect |-> "invalidate", arg |-> key]
CallerOnSuccess(call, data) == [call |-> call, effect |-> "onSuccess", arg |-> data]

\* The observer's onSuccess: invalidateQueries.forEach(...), then
\* mutationOptions?.onSuccess?.(...args).
OnSuccess(observer, call, data) ==
    [i \in 1..Len(observer.invalidates) |-> Invalidation(call, observer.invalidates[i])]
    \o (IF observer.callsOnSuccess THEN <<CallerOnSuccess(call, data)>> ELSE <<>>)

\* mutation.mutate(input): mutationFn calls client.request(route, input).
Mutate(hookCall, input) ==
    /\ Len(calls) < MaxMutations
    /\ LET observer == ObserverOf(hookCall)
       IN /\ Request(observer.route, input)
          /\ mutations' = MapSet(mutations, Len(calls) + 1,
                                 [hookCall |-> hookCall,
                                  observer |-> [observer EXCEPT !.status = "pending"]])
    /\ UNCHANGED effects

\* The promise mutationFn returned has settled: useMutation runs onSuccess when it
\* was fulfilled and not when it was rejected.
MutationSettled(call) ==
    /\ call \in DOMAIN mutations
    /\ mutations[call].observer.status = "pending"
    /\ calls[call].state # "pending"
    /\ IF calls[call].state = "fulfilled"
       THEN /\ mutations' = [mutations EXCEPT ![call].observer.status = "success"]
            /\ effects' = effects \o OnSuccess(mutations[call].observer, call, calls[call].value)
       ELSE /\ mutations' = [mutations EXCEPT ![call].observer.status = "error"]
            /\ UNCHANGED effects
    /\ UNCHANGED clientVars

\* The responses the worker can post to the mutations of the model.
HookResponses ==
    {[id |-> TemplateString(i), success |-> TRUE, data |-> "{id:2}"] : i \in 1..MaxMutations}
    \cup {[id |-> TemplateString(i), success |-> FALSE, error |-> "boom"] : i \in 1..MaxMutations}

(***************************************************************************)
(* The module-level registry of WorkerClient instances: getWorkerClient of *)
(* workerClient.ts (one instance per workerUrl) and of part_003 (one       *)
(* instance).                                                              *)
(***************************************************************************)
WorkerUrls == {"/db-worker.js", "/analytics-worker.js"}

\* new WorkerClient(workerUrl): new Worker(workerUrl), requestId = 0, an empty table.
\* askedFor records, for each request() call, the workerUrl its caller asked for, and
\* via, the proxy the caller held (0: the client itself);
\* terminated, that worker.terminate() has been called on the instance's Worker, and
\* afterTerminate, how many of its request() calls were made after that.
NewWorkerClient(workerUrl) ==
    [worker |-> workerUrl, requestId |-> 0, pendingRequests |-> <<>>, calls |-> <<>>,
     toWorker |-> <<>>, askedFor |-> <<>>, via |-> <<>>, terminated |-> FALSE,
     afterTerminate |-> 0]

\* getWorkerClient(workerUrl) constructing a WorkerClient on every call.
getWorkerClientAlwaysNew(registry, created, workerUrl) ==
    [registry |-> MapSet(registry, workerUrl, Len(created) + 1),
     instances |-> Append(created, NewWorkerClient(workerUrl)),
     returned |-> Len(created) + 1]

\* getWorkerClient(workerUrl) of workerClient.ts: the registry and the instances after
\* the call, and the instance it returns.
getWorkerClientKeyed(registry, created, workerUrl) ==
    IF workerUrl \in DOMAIN registry
    THEN [registry |-> registry, instances |-> created, returned |-> registry[workerUrl]]
    ELSE [registry |-> MapSet(registry, workerUrl, Len(created) + 1),
          instances |-> Append(created, NewWorkerClient(workerUrl)),
          returned |-> Len(created) + 1]

\* getWorkerClient(workerUrl) of part_003: if (!workerClientInstance) ...
getWorkerClientSingle(registry, created, workerUrl) ==
    IF registry # <<>>
    THEN [registry |-> registry, instances |-> created, returned |-> registry[1]]
    ELSE [registry |-> <<Len(created) + 1>>,
          instances |-> Append(created, NewWorkerClient(workerUrl)),
          returned |-> Len(created) + 1]

getWorkerClient(kind, registry, created, workerUrl) ==
    IF kind = "keyed"
    THEN getWorkerClientKeyed(registry, created, workerUrl)
    ELSE getWorkerClientSingle(registry, created, workerUrl)

\* useWorkerClient(workerUrl) building a Proxy on every call.
useWorkerClientNoCache(kind, registry, created, cached, made, workerUrl) ==
    LET got == getWorkerClient(kind, registry, created, workerUrl) IN
    [registry |-> got.registry, instances |-> got.instances,
     proxyInstances |-> MapSet(cached, workerUrl, Len(made) + 1),
     proxies |-> Append(made, [target |-> got.returned]),
     returned |-> got.returned, proxy |-> Len(made) + 1]

\* useWorkerClient(workerUrl): workerClient.ts returns the cached proxy of the URL or
\* wraps getWorkerClient(workerUrl) in a new Proxy and caches it; part_003 returns
\* getWorkerClient(workerUrl) itself.  returned is the instance requests end up on,
\* proxy the proxy handed out (0: none).
useWorkerClient(kind, registry, created, cached, made, workerUrl) ==
    IF kind = "keyed"
    THEN IF workerUrl \in DOMAIN cached
         THEN [registry |-> registry, instances |-> created,
               proxyInstances |-> cached, proxies |-> made,
               returned |-> made[cached[workerUrl]].target, proxy |-> cached[workerUrl]]
         ELSE LET got == getWorkerClient(kind, registry, created, workerUrl) IN
              [registry |-> got.registry, instances |-> got.instances,
               proxyInstances |-> MapSet(cached, workerUrl, Len(made) + 1),
               proxies |-> Append(made, [target |-> got.returned]),
               returned |-> got.returned, proxy |-> Len(made) + 1]
    ELSE LET got == getWorkerClient(kind, registry, created, workerUrl) IN
         [registry |-> got.registry, instances |-> got.instances,
          proxyInstances |-> cached, proxies |-> made,
          returned |-> got.returned, proxy |-> 0]

\* client.request(route, input) on an instance, reached through proxy (0: directly).
requestOn(client, workerUrl, proxy, route, input) ==
    LET n == NextRequestId(client.requestId)
        id == TemplateString(n)
    IN [client EXCEPT !.requestId = n,
                      !.calls = Append(@, NewCall(id)),
                      !.pendingRequests = MapSet(@, id, Len(client.calls) + 1),
                      !.toWorker = Append(@, [id |-> id, route |-> route, input |-> input]),
                      !.askedFor = Append(@, workerUrl),
                      !.via = Append(@, proxy),
                      !.afterTerminate = IF client.terminated THEN @ + 1 ELSE @]

\* client.terminate(): this.worker.terminate(); the instance stays as it is.
terminateOn(client) == [client EXCEPT !.terminated = TRUE]

NumRegistryCalls ==
    Cardinality({<<i, k>> \in (1..MaxRegistryCalls) \X (1..MaxRegistryCalls) :
                    i \in DOMAIN instances /\ k \in DOMAIN instances[i].calls})

\* getWorkerClient(workerUrl).request(route, input), as useWorkerQuery does.
RegistryRequest(workerUrl, route, input) ==
    /\ NumRegistryCalls < MaxRegistryCalls
    /\ LET got == getWorkerClient(registryKind, workerClientInstances, instances, workerUrl)
       IN /\ workerClientInstances' = got.registry
          /\ instances' = [got.instances EXCEPT
                              ![got.returned] = requestOn(@, workerUrl, 0, route, input)]
    /\ UNCHANGED <<registryKind, proxyInstances, proxies>>

\* useWorkerClient(workerUrl).request(route, input): the proxy hands request() of its
\* target on.
RegistryUseRequest(workerUrl, route, input) ==
    /\ NumRegistryCalls < MaxRegistryCalls
    /\ LET got == useWorkerClient(registryKind, workerClientInstances, instances,
                                  proxyInstances, proxies, workerUrl)
       IN /\ workerClientInstances' = got.registry
          /\ proxyInstances' = got.proxyInstances
          /\ proxies' = got.proxies
          /\ instances' = [got.instances EXCEPT
                              ![got.returned] = requestOn(@, workerUrl, got.proxy, route, input)]
    /\ UNCHANGED registryKind

\* getWorkerClient(workerUrl).terminate()
RegistryTerminate(workerUrl) ==
    /\ LET got == getWorkerClient(registryKind, workerClientInstances, instances, workerUrl)
       IN /\ ~got.instances[got.returned].terminated
          /\ workerClientInstances' = got.registry
          /\ instances' = [got.instances EXCEPT ![got.returned] = terminateOn(@)]
    /\ UNCHANGED <<registryKind, proxyInstances, proxies>>

\* The Worker of instance i posts a message: that instance's handleMessage runs.
\* A terminated Worker posts nothing more.
RegistryMessage(i, response) ==
    /\ i \in DOMAIN instances
    /\ ~instances[i].terminated
    /\ LET after == handleMessage(instances[i].pendingRequests, instances[i].calls, response)
       IN instances' = [instances EXCEPT ![i].pendingRequests = after.pendingRequests,
                                         ![i].calls = after.calls]
    /\ UNCHANGED <<registryKind, workerClientInstances, proxyInstances, proxies>>

RegistryResponses ==
    {[id |-> TemplateString(n), success |-> TRUE, data |-> "[]"] : n \in 1..2}
    \cup {[id |-> TemplateString(n), success |-> FALSE, error |-> "boom"] : n \in 1..2}

InitRegistry ==
    /\ registryKind \in {"keyed", "single"}
    /\ workerClientInstances = <<>>
    /\ instances = <<>>
    /\ proxyInstances = <<>>
    /\ proxies = <<>>

(***************************************************************************)
(* The type-tagged database workers: worker2.ts and the sqlite part of     *)
(* worker.ts (synchronous sqlite3 over OPFS), and the PGlite part of       *)
(* worker.ts (asynchronous).  A table is [exists, rows, seq]: seq is the    *)
(* largest id the AUTOINCREMENT / SERIAL column has handed out.            *)
(***************************************************************************)
NoTable == [exists |-> FALSE, rows |-> {}, seq |-> 0]

\* CREATE TABLE IF NOT EXISTS users(...)
CreateTableIfNotExists(t) == IF t.exists THEN t ELSE [exists |-> TRUE, rows |-> {}, seq |-> 0]

\* DROP TABLE IF EXISTS users; CREATE TABLE users(...)
DropAndCreateTable(t) == [exists |-> TRUE, rows |-> {}, seq |-> 0]

\* INSERT INTO users(name, email, age) VALUES (?, ?, ?)
Insert(t, name, email, age) ==
    [t EXCEPT !.rows = @ \cup {[id |-> t.seq + 1, name |-> name, email |-> email, age |-> age]},
              !.seq = @ + 1]

\* DELETE FROM users WHERE id = ?
Delete(t, id) == [t EXCEPT !.rows = {r \in @ : r.id # id}]

\* UPDATE users SET <the fields given> WHERE id = ?
Update(t, id, fields) ==
    [t EXCEPT !.rows = {IF r.id = id
                        THEN [f \in DOMAIN r |-> IF f \in DOMAIN fields THEN fields[f] ELSE r[f]]
                        ELSE r : r \in @}]

\* SELECT * FROM users ORDER BY id
RECURSIVE OrderById(_)
OrderById(rows) ==
    IF rows = {} THEN <<>>
    ELSE LET first == CHOOSE r \in rows : \A q \in rows : r.id <= q.id
         IN <<first>> \o OrderById(rows \ {first})

SampleUsers == <<[name |-> "Alice", email |-> "alice@example.com", age |-> 30],
                 [name |-> "Bob", email |-> "bob@example.com", age |-> 25]>>

\* for (const user of sampleUsers) db.exec(INSERT ...)
RECURSIVE InsertAll(_, _)
InsertAll(t, list) ==
    IF list = <<>> THEN t
    ELSE InsertAll(Insert(t, Head(list).name, Head(list).email, Head(list).age), Tail(list))

\* error(...): a log message of class 'error'.  Messages of class '' (log(...)) carry no
\* state and are left out of outbox.
ErrorLog(text) == [type |-> "log", cssClass |-> "error", text |-> text]

\* The queryResult message; task names the command whose handler posted it.
QueryResult(list, task) == [type |-> "queryResult", users |-> list, task |-> task]

\* initDatabase of worker2.ts: OPFS only.  schemaOk: the statements on the table succeed.
initDatabaseWorker2(platform, schemaOk, disk) ==
    IF platform # "available"
    THEN [db |-> "null", isInitialized |-> FALSE, table |-> disk,
          posts |-> <<ErrorLog("Error initializing database:")>>]
    ELSE IF ~schemaOk
    THEN [db |-> "null", isInitialized |-> TRUE, table |-> disk,
          posts |-> <<ErrorLog("Error initializing database:")>>]
    ELSE LET created == CreateTableIfNotExists(disk)
             userCount == Cardinality(created.rows)
         IN [db |-> "opfs", isInitialized |-> TRUE,
             table |-> IF userCount = 0 THEN InsertAll(created, SampleUsers) ELSE created,
             posts |-> <<>>]

\* initDatabase of worker.ts (sqlite part) inside the try/catch of the .then callback.
initDatabaseSqlite(platform, schemaOk, disk) ==
    IF platform = "broken"
    THEN [db |-> "null", isInitialized |-> FALSE, table |-> disk,
          posts |-> <<ErrorLog("Exception:")>>]
    ELSE LET conn == IF platform = "available" THEN "opfs" ELSE "memory"
             before == IF conn = "opfs" THEN disk ELSE NoTable
         IN IF ~schemaOk
            THEN [db |-> conn, isInitialized |-> FALSE, table |-> before,
                  posts |-> <<ErrorLog("Error initializing database:")>>]
            ELSE [db |-> conn, isInitialized |-> FALSE,
                  table |-> InsertAll(DropAndCreateTable(before), SampleUsers),
                  posts |-> <<>>]

initDatabase(kind, platform, schemaOk, disk) ==
    IF kind = "worker2"
    THEN initDatabaseWorker2(platform, schemaOk, disk)
    ELSE initDatabaseSqlite(platform, schemaOk, disk)

\* The table behind the worker's database conn.
Table == IF db = "opfs" THEN opfsTable ELSE memTable

\* sqlite3InitModule(...).then(sqlite3 => initDatabase(sqlite3))
InitDatabase(schemaOk) ==
    /\ flavour \in {"worker2", "sqlite"}
    /\ taggedPc = "loading"
    /\ LET done == initDatabase(flavour, opfs, schemaOk, opfsTable)
       IN /\ db' = done.db
          /\ isInitialized' = done.isInitialized
          /\ IF done.db = "memory"
             THEN memTable' = done.table /\ UNCHANGED opfsTable
             ELSE opfsTable' = done.table /\ UNCHANGED memTable
          /\ outbox' = outbox \o done.posts
    /\ taggedPc' = "running"
    /\ UNCHANGED <<flavour, opfs, dbQueue, nCommands, nRestarts>>

\* getUsers() answering a failed SELECT with an empty list.
getUsersEmptyOnError(conn, t, readOk, task) ==
    IF conn = "null" THEN <<ErrorLog("Database not initialized")>>
    ELSE IF ~(readOk /\ t.exists) THEN <<QueryResult(<<>>, task)>>
    ELSE <<QueryResult(OrderById(t.rows), task)>>

\* getUsers(): what it posts.
getUsers(conn, t, readOk, task) ==
    IF conn = "null" THEN <<ErrorLog("Database not initialized")>>
    ELSE IF ~(readOk /\ t.exists) THEN <<ErrorLog("Error getting users:")>>
    ELSE <<QueryResult(OrderById(t.rows), task)>>

UpdateFields(payload) == [f \in DOMAIN payload \ {"id"} |-> payload[f]]

\* addUser / deleteUser / updateUser: the table after the statement.
Written(t, message) ==
    IF message.type = "addUser"
    THEN Insert(t, message.payload.name, message.payload.email, message.payload.age)
    ELSE IF message.type = "deleteUser"
    THEN Delete(t, message.payload.id)
    ELSE Update(t, message.payload.id, UpdateFields(message.payload))

WriteCommands == {"addUser", "deleteUser", "updateUser"}

CommandFailureText(type) ==
    IF type = "addUser" THEN "Error adding user:"
    ELSE IF type = "deleteUser" THEN "Error deleting user:"
    ELSE "Error updating user:"

\* A listener whose write commands do not call getUsers() afterwards.
onTaggedMessageNoRefresh(kind, conn, flag, t, message, writeOk, readOk, task) ==
    IF message.type \in WriteCommands /\ conn # "null" /\ writeOk /\ t.exists
       /\ DOMAIN UpdateFields(message.payload) # {}
    THEN [db |-> conn, isInitialized |-> flag, table |-> Written(t, message), posts |-> <<>>]
    ELSE [db |-> conn, isInitialized |-> flag, table |-> t,
          posts |-> getUsers(conn, t, readOk, task)]

\* The message listener of worker2.ts and of the sqlite part of worker.ts, with the
\* function it calls.  The result is the conn, the flag, the table and the posts.
onTaggedMessage(kind, conn, flag, t, message, writeOk, readOk, task) ==
    LET same(posts) == [db |-> conn, isInitialized |-> flag, table |-> t, posts |-> posts]
    IN IF message.type \in WriteCommands
       THEN IF conn = "null" THEN same(<<ErrorLog("Database not initialized")>>)
            ELSE IF message.type = "updateUser" /\ DOMAIN UpdateFields(message.payload) = {}
            THEN same(<<ErrorLog("No fields to update")>>)
            ELSE IF ~(writeOk /\ t.exists) THEN same(<<ErrorLog(CommandFailureText(message.type))>>)
            ELSE [db |-> conn, isInitialized |-> flag, table |-> Written(t, message),
                  posts |-> getUsers(conn, Written(t, message), readOk, task)]
       ELSE IF message.type = "getUsers" THEN same(getUsers(conn, t, readOk, task))
       ELSE IF message.type = "closeDb" /\ kind = "worker2"
       THEN IF conn = "null" THEN same(<<>>)
            ELSE [db |-> "null", isInitialized |-> FALSE, table |-> t, posts |-> <<>>]
       ELSE same(<<ErrorLog("Unknown message type")>>)

TaggedMessages ==
    {[type |-> "addUser", payload |-> [name |-> "Ann", email |-> "ann@x.io", age |-> 41]],
     [type |-> "deleteUser", payload |-> [id |-> 1]],
     [type |-> "deleteUser", payload |-> [id |-> 2]],
     [type |-> "updateUser", payload |-> [id |-> 2, name |-> "Bea"]],
     [type |-> "updateUser", payload |-> [id |-> 2]],
     [type |-> "getUsers"],
     [type |-> "closeDb"],
     [type |-> "dropDb"]}

TaggedCommand(message, writeOk, readOk) ==
    /\ flavour \in {"worker2", "sqlite"}
    /\ nCommands < MaxCommands
    /\ nCommands' = nCommands + 1
    /\ LET done == onTaggedMessage(flavour, db, isInitialized, Table, message, writeOk, readOk,
                                   nCommands + 1)
       IN /\ db' = done.db
          /\ isInitialized' = done.isInitialized
          /\ IF db = "opfs"
             THEN opfsTable' = done.table /\ UNCHANGED memTable
             ELSE IF db = "memory"
             THEN memTable' = done.table /\ UNCHANGED opfsTable
             ELSE UNCHANGED <<opfsTable, memTable>>
          /\ outbox' = outbox \o done.posts
    /\ UNCHANGED <<flavour, opfs, taggedPc, dbQueue, nRestarts>>

\* The PGlite workers: the PGlite part of worker.ts ("pglite"), where db is a module
\* constant, never null, and "closed" is the handle after client.close(); and the
\* worker of part_002 ("pgliteRaw"), where cleanup sets db = null after db.close().
\* Statements run one at a time in the order submitted.
PgliteKinds == {"pglite", "pgliteRaw"}
InitDb == [op |-> "create", task |-> 0]

\* The message listener up to the first await of the function it calls.
AsyncCommand(message) ==
    /\ flavour \in PgliteKinds
    /\ nCommands < MaxCommands
    /\ nCommands' = nCommands + 1
    /\ IF message.type \in WriteCommands \cup {"getUsers"} /\ db = "null"
       THEN outbox' = Append(outbox, ErrorLog("Database not initialized")) /\ UNCHANGED dbQueue
       ELSE IF message.type = "updateUser" /\ DOMAIN UpdateFields(message.payload) = {}
       THEN outbox' = Append(outbox, ErrorLog("No fields to update")) /\ UNCHANGED dbQueue
       ELSE IF message.type \in WriteCommands
       THEN dbQueue' = Append(dbQueue, [op |-> "write", message |-> message,
                                         task |-> nCommands + 1])
            /\ UNCHANGED outbox
       ELSE IF message.type = "getUsers"
       THEN dbQueue' = Append(dbQueue, [op |-> "select", task |-> nCommands + 1])
            /\ UNCHANGED outbox
       ELSE IF message.type = "closeDb"
       THEN dbQueue' = (IF db = "null" THEN dbQueue
                        ELSE Append(dbQueue, [op |-> "close", task |-> nCommands + 1]))
            /\ UNCHANGED outbox
       ELSE IF flavour = "pgliteRaw"
       THEN outbox' = Append(outbox, ErrorLog("Unknown message type")) /\ UNCHANGED dbQueue
       ELSE UNCHANGED <<dbQueue, outbox>>
    /\ UNCHANGED <<flavour, opfs, taggedPc, db, isInitialized, opfsTable, memTable, nRestarts>>

\* The statement does not throw: the storage works, the handle is open and the table
\* it names exists.
StatementOk(stepOk, stmt) ==
    /\ stepOk /\ opfs = "available" /\ db = "opfs"
    /\ stmt.op \in {"write", "select", "initSelect"} => opfsTable.exists

\* The database finishes the oldest statement and the function awaiting it continues.
DbStep(stepOk) ==
    /\ flavour \in PgliteKinds
    /\ dbQueue # <<>>
    /\ LET stmt == Head(dbQueue)
           ok == StatementOk(stepOk, stmt)
       IN CASE stmt.op = "create" ->
                 IF ok
                 THEN /\ opfsTable' = CreateTableIfNotExists(opfsTable)
                      /\ dbQueue' = Append(Tail(dbQueue), [op |-> "initSelect", task |-> 0])
                      /\ UNCHANGED <<outbox, db>>
                 ELSE /\ outbox' = Append(outbox, ErrorLog("Error initialising DB"))
                      /\ dbQueue' = Tail(dbQueue)
                      /\ UNCHANGED <<opfsTable, db>>
            [] stmt.op = "initSelect" ->
                 /\ outbox' = IF ok THEN outbox
                              ELSE Append(outbox, ErrorLog("Error initialising DB"))
                 /\ dbQueue' = Tail(dbQueue)
                 /\ UNCHANGED <<opfsTable, db>>
            [] stmt.op = "write" ->
                 IF ok
                 THEN /\ opfsTable' = Written(opfsTable, stmt.message)
                      /\ dbQueue' = Append(Tail(dbQueue), [op |-> "select", task |-> stmt.task])
                      /\ UNCHANGED <<outbox, db>>
                 ELSE /\ outbox' = Append(outbox, ErrorLog(CommandFailureText(stmt.message.type)))
                      /\ dbQueue' = Tail(dbQueue)
                      /\ UNCHANGED <<opfsTable, db>>
            [] stmt.op = "select" ->
                 /\ outbox' = Append(outbox,
                                     IF ok THEN QueryResult(OrderById(opfsTable.rows), stmt.task)
                                     ELSE ErrorLog("Error getting users:"))
                 /\ dbQueue' = Tail(dbQueue)
                 /\ UNCHANGED <<opfsTable, db>>
            [] stmt.op = "close" ->
                 /\ db' = IF ~ok THEN db ELSE IF flavour = "pgliteRaw" THEN "null" ELSE "closed"
                 /\ outbox' = IF ok THEN outbox
                              ELSE Append(outbox, ErrorLog("Error closing database:"))
                 /\ dbQueue' = Tail(dbQueue)
                 /\ UNCHANGED opfsTable
    /\ UNCHANGED <<flavour, opfs, taggedPc, isInitialized, memTable, nCommands, nRestarts>>

\* The state of a worker whose module has just been evaluated.
Started(kind) ==
    /\ taggedPc' = IF kind \in PgliteKinds THEN "running" ELSE "loading"
    /\ db' = IF kind \in PgliteKinds THEN "opfs" ELSE "null"
    /\ isInitialized' = FALSE
    /\ memTable' = NoTable
    /\ dbQueue' = IF kind \in PgliteKinds THEN <<InitDb>> ELSE <<>>
    /\ outbox' = <<>>

\* The page is reloaded: the worker is discarded and started again; the file in OPFS stays.
Restart ==
    /\ nRestarts < MaxRestarts
    /\ nRestarts' = nRestarts + 1
    /\ Started(flavour)
    /\ UNCHANGED <<flavour, opfs, opfsTable, nCommands>>

\* worker.onmessage of App.tsx where a queryResult is added to the list held.
onAppMessageAppends(list, data) ==
    IF data.type = "queryResult" THEN list \o data.users ELSE list

\* worker.onmessage of App.tsx: the users state after the message.  A queryResult
\* replaces the list (setUsers(data.payload.users)); a log message leaves it.
onAppMessage(list, data) ==
    IF data.type = "queryResult" THEN data.users ELSE list

\* The users state of an App that started with useState([]) and has received the
\* messages, in the order the worker posted them.
RECURSIVE AppUsersAfter(_, _)
AppUsersAfter(list, messages) ==
    IF messages = <<>> THEN list
    ELSE AppUsersAfter(onAppMessage(list, Head(messages)), Tail(messages))

InitTagged ==
    /\ flavour \in {"worker2", "sqlite"} \cup PgliteKinds
    /\ opfs \in {"available", "unavailable", "broken"}
    /\ taggedPc = IF flavour \in PgliteKinds THEN "running" ELSE "loading"
    /\ db = IF flavour \in PgliteKinds THEN "opfs" ELSE "null"
    /\ isInitialized = FALSE
    /\ opfsTable = NoTable
    /\ memTable = NoTable
    /\ dbQueue = IF flavour \in PgliteKinds THEN <<InitDb>> ELSE <<>>
    /\ outbox = <<>>
    /\ nCommands = 0
    /\ nRestarts = 0

(***************************************************************************)
(* Specifications.  Each takes one component through its operations and    *)
(* leaves the others as constructed.                                       *)
(***************************************************************************)
IdleClient == InitClient
IdleDispatch == router = NoRouter /\ users = <<>> /\ dispatched = <<>>
IdleWorker ==
    /\ variant = "reject" /\ initPc = "waitReady" /\ isDbReady = FALSE
    /\ handleRequest = FALSE /\ requestQueue = <<>> /\ inbox = <<>> /\ received = <<>>
    /\ awaiting = {} /\ draining = <<>> /\ posted = <<>>
IdleChannel == deliveredUpTo = 0
IdleHooks == mutations = <<>> /\ effects = <<>>
IdleRegistry ==
    /\ registryKind = "keyed" /\ workerClientInstances = <<>> /\ instances = <<>>
    /\ proxyInstances = <<>> /\ proxies = <<>>
IdleTagged ==
    /\ flavour = "worker2" /\ opfs = "available" /\ taggedPc = "loading" /\ db = "null"
    /\ isInitialized = FALSE /\ opfsTable = NoTable /\ memTable = NoTable /\ dbQueue = <<>>
    /\ outbox = <<>> /\ nCommands = 0 /\ nRestarts = 0
IdleOthers == IdleHooks /\ IdleRegistry /\ IdleTagged

\* The caller side: request() calls, message events and terminate() in any order.
ClientRequest ==
    /\ \E call \in ClientCalls : Request(call[1], call[2])
    /\ UNCHANGED <<dispatchVars, workerVars, channelVars, otherVars>>
ClientMessage ==
    /\ \E response \in ClientMessages : OnMessage(response)
    /\ UNCHANGED <<dispatchVars, workerVars, channelVars, otherVars>>
ClientTerminate == Terminate /\ UNCHANGED <<dispatchVars, workerVars, channelVars, otherVars>>
NextClient == ClientRequest \/ ClientMessage \/ ClientTerminate
InitSpecClient == InitClient /\ IdleDispatch /\ IdleWorker /\ IdleChannel /\ IdleOthers
SpecClient == InitSpecClient /\ [][NextClient]_vars

\* The dispatcher: calls of handle, one after the other.
DispatchRequest ==
    /\ \E route \in RouteNames, input \in Inputs, outcome \in DbOutcomes :
          Dispatch(route, input, outcome)
    /\ UNCHANGED <<clientVars, workerVars, channelVars, otherVars>>
NextDispatch == DispatchRequest
InitSpecDispatch == IdleClient /\ InitDispatch /\ IdleWorker /\ IdleChannel /\ IdleOthers
SpecDispatch == InitSpecDispatch /\ [][NextDispatch]_vars

\* The router-based workers, in both variants.
WorkerSend == (\E call \in WorkerCalls : Send(call)) /\ UNCHANGED <<clientVars, channelVars, otherVars>>
WorkerSendOther == SendOther /\ UNCHANGED <<clientVars, channelVars, otherVars>>
WorkerInitDbOpened == InitDbOpened /\ UNCHANGED <<clientVars, channelVars, otherVars>>
WorkerInitTableCreated == InitTableCreated /\ UNCHANGED <<clientVars, channelVars, otherVars>>
WorkerInitSelected == InitSelected /\ UNCHANGED <<clientVars, channelVars, otherVars>>
WorkerInitSeeded == InitSeeded /\ UNCHANGED <<clientVars, channelVars, otherVars>>
WorkerInitFailed == InitFailed /\ UNCHANGED <<clientVars, channelVars, otherVars>>
WorkerDrainAnswered == (\E outcome \in DbOutcomes : DrainAnswered(outcome)) /\ UNCHANGED <<clientVars, channelVars, otherVars>>
WorkerListenReject == ListenReject /\ UNCHANGED <<clientVars, channelVars, otherVars>>
WorkerListenQueue == ListenQueue /\ UNCHANGED <<clientVars, channelVars, otherVars>>
WorkerListenAnswered ==
    /\ \E request \in awaiting, outcome \in DbOutcomes : ListenAnswered(request, outcome)
    /\ UNCHANGED <<clientVars, channelVars, otherVars>>
NextWorker ==
    \/ WorkerSend \/ WorkerSendOther
    \/ WorkerInitDbOpened \/ WorkerInitTableCreated \/ WorkerInitSelected
    \/ WorkerInitSeeded \/ WorkerInitFailed \/ WorkerDrainAnswered
    \/ WorkerListenReject \/ WorkerListenQueue \/ WorkerListenAnswered
InitSpecWorker == IdleClient /\ InitWorker /\ IdleChannel /\ IdleOthers
SpecWorker == InitSpecWorker /\ [][NextWorker]_vars

\* One WorkerClient connected to the reject-when-not-ready worker: what request()
\* posts arrives in the worker's listener, and what the worker posts is delivered to
\* worker.onmessage in the order it was posted.
SystemCalls ==
    {<<"getUsers", Undefined>>, <<"addUser", InvalidUser>>, <<"deleteItem", ValidItem>>,
     <<"doesNotExist", Undefined>>}
SystemRequest ==
    /\ Len(calls) < MaxSystemCalls
    /\ \E call \in SystemCalls : Request(call[1], call[2])
    /\ inbox' = Append(inbox, toWorker'[Len(toWorker')])
    /\ UNCHANGED <<variant, initPc, isDbReady, handleRequest, requestQueue, received,
                   awaiting, draining, posted, dispatchVars, channelVars, otherVars>>
SystemDeliver ==
    /\ deliveredUpTo < Len(posted)
    /\ OnMessage(posted[deliveredUpTo + 1])
    /\ deliveredUpTo' = deliveredUpTo + 1
    /\ UNCHANGED <<dispatchVars, workerVars, otherVars>>
NextSystem ==
    \/ SystemRequest \/ SystemDeliver
    \/ WorkerInitDbOpened \/ WorkerInitTableCreated \/ WorkerInitSelected
    \/ WorkerInitSeeded \/ WorkerInitFailed
    \/ WorkerListenReject \/ WorkerListenAnswered
InitSpecSystem == InitClient /\ InitWorker /\ variant = "reject" /\ IdleChannel /\ IdleOthers
SpecSystem == InitSpecSystem /\ [][NextSystem]_vars

\* The mutation hooks on one WorkerClient.
HookMutate ==
    /\ \E hookCall \in HookCalls : Mutate(hookCall, "{name:'Ann'}")
    /\ UNCHANGED <<dispatchVars, workerVars, channelVars, registryVars, taggedVars>>
HookMessage ==
    /\ \E response \in HookResponses : OnMessage(response)
    /\ UNCHANGED <<dispatchVars, workerVars, channelVars, otherVars>>
HookSettled ==
    /\ \E call \in DOMAIN mutations : MutationSettled(call)
    /\ UNCHANGED <<dispatchVars, workerVars, channelVars, registryVars, taggedVars>>
NextHooks == HookMutate \/ HookMessage \/ HookSettled
InitSpecHooks == InitClient /\ IdleDispatch /\ IdleWorker /\ IdleChannel /\ IdleOthers
SpecHooks == InitSpecHooks /\ [][NextHooks]_vars

\* Clients obtained from the registry for two worker URLs.
RegistryGetAndRequest ==
    /\ \E workerUrl \in WorkerUrls : RegistryRequest(workerUrl, "getUsers", Undefined)
    /\ UNCHANGED <<clientVars, dispatchVars, workerVars, channelVars, hookVars, taggedVars>>
RegistryDeliver ==
    /\ \E i \in DOMAIN instances, response \in RegistryResponses : RegistryMessage(i, response)
    /\ UNCHANGED <<clientVars, dispatchVars, workerVars, channelVars, hookVars, taggedVars>>
RegistryUseAndRequest ==
    /\ \E workerUrl \in WorkerUrls : RegistryUseRequest(workerUrl, "getUsers", Undefined)
    /\ UNCHANGED <<clientVars, dispatchVars, workerVars, channelVars, hookVars, taggedVars>>
RegistryTeardown ==
    /\ \E workerUrl \in WorkerUrls : RegistryTerminate(workerUrl)
    /\ UNCHANGED <<clientVars, dispatchVars, workerVars, channelVars, hookVars, taggedVars>>
NextRegistry ==
    RegistryGetAndRequest \/ RegistryUseAndRequest \/ RegistryDeliver \/ RegistryTeardown
InitSpecRegistry ==
    IdleClient /\ IdleDispatch /\ IdleWorker /\ IdleChannel /\ IdleHooks /\ InitRegistry /\ IdleTagged
SpecRegistry == InitSpecRegistry /\ [][NextRegistry]_vars

\* A type-tagged worker, its database and the commands of the page.
TaggedOthers == UNCHANGED <<clientVars, dispatchVars, workerVars, channelVars, hookVars, registryVars>>
TaggedInitDatabase == (\E schemaOk \in BOOLEAN : InitDatabase(schemaOk)) /\ TaggedOthers
TaggedSyncCommand ==
    /\ \E message \in TaggedMessages, writeOk \in BOOLEAN, readOk \in BOOLEAN :
           TaggedCommand(message, writeOk, readOk)
    /\ TaggedOthers
TaggedAsyncCommand == (\E message \in TaggedMessages : AsyncCommand(message)) /\ TaggedOthers
TaggedDbStep == (\E stepOk \in BOOLEAN : DbStep(stepOk)) /\ TaggedOthers
TaggedRestart == Restart /\ TaggedOthers
NextTagged ==
    \/ TaggedInitDatabase
    \/ TaggedSyncCommand
    \/ TaggedAsyncCommand
    \/ TaggedDbStep
    \/ TaggedRestart
InitSpecTagged ==
    IdleClient /\ IdleDispatch /\ IdleWorker /\ IdleChannel /\ IdleHooks /\ IdleRegistry /\ InitTagged
SpecTagged == InitSpecTagged /\ [][NextTagged]_vars

(***************************************************************************)
(* Properties of the caller side (SpecClient).                             *)
(***************************************************************************)
\* The step is a message event; Delivered is the message it handled.
MessageStep == lastEvent'.op = "message"
Delivered == lastEvent'.msg
CallbackRuns(call) == call.nResolve + call.nReject

\* C1: a delivered response settles exactly the pending call whose id equals the
\* response's id, whatever the order of arrival, and no other call: the calls that
\* a message event changes are the unsettled calls issued under the message's id,
\* and each of those is settled by it.
C1_CorrelationIntegrity ==
    [][MessageStep =>
          \A k \in DOMAIN calls :
              IF calls[k].state = "pending" /\ calls[k].id = Field(Delivered, "id")
              THEN calls'[k].state # "pending" /\ CallbackRuns(calls'[k]) = 1
              ELSE calls'[k] = calls[k]]_vars

\* Three calls were pending together and the responses to the third and then the
\* second arrived first: each settled its own call and the first is still pending.
C1_Witness ==
    /\ Len(calls) = 3
    /\ calls[1].state = "pending"
    /\ calls[2].state = "rejected" /\ calls[2].value = "boom"
    /\ calls[3].state = "fulfilled" /\ calls[3].value = "{id:1}"
    /\ lastEvent = [op |-> "message", msg |-> [id |-> calls[2].id, success |-> FALSE, error |-> "boom"]]

\* C8: the callbacks of one request() call run at most once in total, also when
\* responses with the same id are delivered again.
C8_NoDoubleSettlement ==
    \A k \in DOMAIN calls : CallbackRuns(calls[k]) <= 1

\* A call was fulfilled and a later response with the same id and another outcome
\* was delivered: the call keeps its first settlement and its callbacks ran once.
C8_Witness ==
    /\ Len(calls) >= 1
    /\ calls[1].state = "fulfilled" /\ calls[1].value = "[]"
    /\ CallbackRuns(calls[1]) = 1
    /\ lastEvent = [op |-> "message", msg |-> [id |-> calls[1].id, success |-> FALSE, error |-> "boom"]]

\* C9: a message whose id is no key of the Pending Call Table (an id never issued or
\* already settled, or a message with no id) leaves the table and every call unchanged.
C9_UnmatchedIgnored ==
    [][(MessageStep /\ Field(Delivered, "id") \notin DOMAIN pendingRequests) =>
          /\ pendingRequests' = pendingRequests
          /\ calls' = calls
          /\ requestId' = requestId
          /\ toWorker' = toWorker]_vars

\* With two calls pending, a response with an id that was never issued, or a log
\* message with no id, has just been delivered.
C9_Witness ==
    /\ Cardinality(DOMAIN pendingRequests) = 2
    /\ \A k \in DOMAIN calls : calls[k].state = "pending"
    /\ lastEvent.op = "message"
    /\ Field(lastEvent.msg, "id") \notin {calls[k].id : k \in DOMAIN calls}

\* C10: a matching response with success true fulfils the call with the response's
\* data; one with success false rejects it with the response's error string, or with
\* "Unknown error" when that string is missing or empty; no call is both fulfilled and
\* rejected.
C10_SettlementOutcome ==
    /\ [](\A k \in DOMAIN calls : calls[k].nResolve = 0 \/ calls[k].nReject = 0)
    /\ [][(MessageStep /\ Field(Delivered, "id") \in DOMAIN pendingRequests) =>
             LET after == calls'[pendingRequests[Delivered.id]]
             IN IF "success" \in DOMAIN Delivered /\ Delivered.success
                THEN /\ after.state = "fulfilled"
                     /\ after.value = Delivered.data
                     /\ after.nResolve = 1 /\ after.nReject = 0
                ELSE /\ after.state = "rejected"
                     /\ after.value = (IF "error" \in DOMAIN Delivered /\ Delivered.error # ""
                                       THEN Delivered.error ELSE "Unknown error")
                     /\ after.nResolve = 0 /\ after.nReject = 1]_vars

\* One call was rejected by a response without an error string, one by a response
\* with an empty one, and one was fulfilled with the response's data.
C10_Witness ==
    /\ Len(calls) = 3
    /\ calls[1].state = "rejected" /\ calls[1].value = "Unknown error"
    /\ calls[2].state = "fulfilled" /\ calls[2].value = "{id:1}"
    /\ calls[3].state = "rejected" /\ calls[3].value = "Unknown error"
    /\ pendingRequests = <<>>
    /\ lastEvent = [op |-> "message", msg |-> [id |-> calls[3].id, success |-> FALSE, error |-> ""]]

\* The step is a request() call; Issued is the id it assigned.
RequestStep == lastEvent'.op = "request"
Issued == lastEvent'.id

\* C11: correlation ids are fresh: the calls made on one WorkerClient carry pairwise
\* different ids, and a request() call takes an id that is no key of the Pending Call
\* Table and writes the entry of no other call.
C11_FreshIds ==
    /\ [](\A j, k \in DOMAIN calls : j # k => calls[j].id # calls[k].id)
    /\ [][RequestStep =>
             /\ Issued \notin DOMAIN pendingRequests
             /\ Issued \notin {calls[k].id : k \in DOMAIN calls}
             /\ \A id \in DOMAIN pendingRequests :
                    id \in DOMAIN pendingRequests' /\ pendingRequests'[id] = pendingRequests[id]]_vars

\* The third call was made while the first was still pending and after the second
\* had been settled: the three ids differ and the first entry is still in the table.
C11_Witness ==
    /\ Len(calls) = 3
    /\ lastEvent = [op |-> "request", id |-> calls[3].id]
    /\ calls[1].state = "pending" /\ calls[2].state # "pending"
    /\ DOMAIN pendingRequests = {calls[1].id, calls[3].id}
    /\ pendingRequests[calls[1].id] = 1 /\ pendingRequests[calls[3].id] = 3

\* C12: each request() call creates exactly one Pending Call Table entry, keyed by its
\* id and holding its own callbacks; an entry is removed by the first message event
\* that carries its id, and only by it, so it is removed once and never comes back;
\* no other step adds or removes an entry.
C12_EntryLifecycle ==
    /\ [][IF RequestStep
          THEN /\ Issued \notin DOMAIN pendingRequests
               /\ pendingRequests' = MapSet(pendingRequests, Issued, Len(calls'))
               /\ calls'[Len(calls')].id = Issued
          ELSE IF MessageStep
               THEN pendingRequests' = MapDelete(pendingRequests, Field(Delivered, "id"))
               ELSE pendingRequests' = pendingRequests]_vars
    /\ [](\A k \in DOMAIN calls :
            (calls[k].id \in DOMAIN pendingRequests) = (calls[k].state = "pending"))

\* Two calls were made; the response to the second was delivered twice, the entry
\* went with the first delivery, and the first call's entry is still there.
C12_Witness ==
    /\ Len(calls) = 2
    /\ DOMAIN pendingRequests = {calls[1].id}
    /\ calls[2].state = "fulfilled" /\ CallbackRuns(calls[2]) = 1
    /\ lastEvent = [op |-> "message", msg |-> [id |-> calls[2].id, success |-> FALSE, error |-> "boom"]]

\* The step is a call of terminate().
TerminateStep == lastEvent'.op = "terminate"

\* Call k and its Pending Call Table entry are after the step as they were before.
StaysPending(k) ==
    /\ calls'[k] = calls[k]
    /\ calls[k].id \in DOMAIN pendingRequests'
    /\ pendingRequests'[calls[k].id] = pendingRequests[calls[k].id]

\* C20: terminate() settles no call and changes no entry of the Pending Call Table;
\* after it, with no message event reaching the client any more, every pending call
\* stays pending and keeps its entry in every later step; and in general a pending
\* call stays pending with its entry in every step that is not the delivery of a
\* message with its id: nothing times it out or cleans it up.
C20_UnansweredStayPending ==
    /\ [][TerminateStep =>
             /\ pendingRequests' = pendingRequests
             /\ calls' = calls
             /\ requestId' = requestId /\ toWorker' = toWorker]_vars
    /\ [][terminated =>
             /\ terminated'
             /\ \A k \in DOMAIN calls : calls'[k] = calls[k]
             /\ \A k \in DOMAIN calls : calls[k].state = "pending" => StaysPending(k)]_vars
    /\ [][\A k \in DOMAIN calls :
              (calls[k].state = "pending"
                 /\ ~(MessageStep /\ Field(Delivered, "id") = calls[k].id)) => StaysPending(k)]_vars

\* The first call was answered; terminate() has just been called with the second and
\* the third call pending: both are still pending and have their entries.
C20_Witness ==
    /\ terminated /\ lastEvent = [op |-> "terminate"]
    /\ Len(calls) = 3
    /\ calls[1].state = "rejected"
    /\ calls[2].state = "pending" /\ calls[3].state = "pending"
    /\ CallbackRuns(calls[2]) = 0 /\ CallbackRuns(calls[3]) = 0
    /\ DOMAIN pendingRequests = {calls[2].id, calls[3].id}

(***************************************************************************)
(* Properties of the dispatcher (SpecDispatch).                            *)
(***************************************************************************)
Present(msg, f) == f \in DOMAIN msg /\ msg[f] # "" /\ msg[f] # Undefined
KnownRoute(request) == request.route \in DOMAIN router
Declared(request) == router[request.route]
DeclaresValidator(request) == Declared(request).input # NoSchema
PassesValidation(request) ==
    ~DeclaresValidator(request) \/ SafeParse(Declared(request).input, request.input).success

\* C2: handle never throws: every call, for a known or an unknown route, a valid or an
\* invalid input, a handler that returns or throws, produces exactly one Response
\* Envelope, and that envelope carries the request's id.
C2_ExactlyOneResponse ==
    \A i \in DOMAIN dispatched :
        /\ ~dispatched[i].result.thrown
        /\ Len(dispatched[i].result.responses) = 1
        /\ dispatched[i].result.responses[1].id = dispatched[i].request.id

\* An unknown route, a rejected input and a throwing handler were dispatched, and
\* each call produced one envelope with its own id.
C2_Witness ==
    /\ Len(dispatched) = 3
    /\ dispatched[1].request.route = "doesNotExist"
    /\ dispatched[2].request = [id |-> "2", route |-> "addUser", input |-> InvalidUser]
    /\ dispatched[3].request.route = "deleteItem" /\ dispatched[3].result.invoked # <<>>
    /\ \A i \in 1..3 : /\ Len(dispatched[i].result.responses) = 1
                       /\ dispatched[i].result.responses[1].id = TemplateString(i)

\* C4: a request whose route is absent from the router is answered with a failure
\* envelope (success false, a non-empty error, the request's id) and no handler runs.
C4_UnknownRoute ==
    \A i \in DOMAIN dispatched :
        ~KnownRoute(dispatched[i].request) =>
            /\ Len(dispatched[i].result.responses) = 1
            /\ dispatched[i].result.responses[1].success = FALSE
            /\ Present(dispatched[i].result.responses[1], "error")
            /\ dispatched[i].result.responses[1].id = dispatched[i].request.id
            /\ dispatched[i].result.invoked = <<>>

\* A request for the route doesNotExist was answered.
C4_Witness ==
    /\ Len(dispatched) >= 2
    /\ dispatched[2].request.route = "doesNotExist"
    /\ dispatched[2].result.responses =
           <<[id |-> "2", success |-> FALSE, error |-> "Unknown route: doesNotExist"]>>

\* C5: when the procedure declares a validator and the validator rejects the input,
\* the handler is not invoked and the response is a failure envelope with the
\* request's id that carries the description of the validation failure.
C5_ValidationShortCircuits ==
    \A i \in DOMAIN dispatched :
        LET request == dispatched[i].request IN
        (KnownRoute(request) /\ ~PassesValidation(request)) =>
            /\ dispatched[i].result.invoked = <<>>
            /\ dispatched[i].result.responses =
                   <<[id |-> request.id, success |-> FALSE,
                      error |-> SafeParse(Declared(request).input, request.input).error]>>
            /\ Present(dispatched[i].result.responses[1], "error")

\* addUser was dispatched with an invalid email and a negative age.
C5_Witness ==
    /\ Len(dispatched) >= 1
    /\ dispatched[1].request = [id |-> "1", route |-> "addUser", input |-> InvalidUser]
    /\ dispatched[1].result.invoked = <<>>
    /\ dispatched[1].result.responses[1].success = FALSE

\* C6: for a known route whose input passes validation the handler runs once, and
\* when it completes without failure the response is a success envelope with the
\* request's id whose data is the handler's return value.
C6_SuccessfulRoundTrip ==
    \A i \in DOMAIN dispatched :
        LET request == dispatched[i].request
            invoked == dispatched[i].result.invoked
        IN (KnownRoute(request) /\ PassesValidation(request)) =>
              /\ Len(invoked) = 1
              /\ invoked[1].handler = Declared(request).handler
              /\ ~invoked[1].threw =>
                     dispatched[i].result.responses =
                         <<[id |-> request.id, success |-> TRUE, data |-> invoked[1].outcome]>>

\* The greeting query and a valid addUser were dispatched and answered with what
\* their handlers returned.
C6_Witness ==
    /\ Len(dispatched) >= 2
    /\ dispatched[1].request.route = "greeting"
    /\ dispatched[1].result.responses =
           <<[id |-> "1", success |-> TRUE, data |-> "Hello from worker!"]>>
    /\ dispatched[2].request.route = "addUser"
    /\ dispatched[2].result.responses =
           <<[id |-> "2", success |-> TRUE, data |-> "{id:2,name:'Ann'}"]>>

\* The step is a call of handle whose handler threw.
FailedDispatchStep ==
    /\ Len(dispatched') = Len(dispatched) + 1
    /\ dispatched'[Len(dispatched')].result.invoked # <<>>
    /\ dispatched'[Len(dispatched')].result.invoked[1].threw

\* C7: when the handler throws, the response is a failure envelope whose error is the
\* failure's message, or a non-empty fallback when the failure has no message; and the
\* failed call leaves the router and the handlers' context as they were, so that a
\* later dispatch behaves as if the failed call had not happened.
C7_ExceptionContained ==
    /\ [](\A i \in DOMAIN dispatched :
            LET invoked == dispatched[i].result.invoked
                responses == dispatched[i].result.responses
            IN (invoked # <<>> /\ invoked[1].threw) =>
                  /\ Len(responses) = 1
                  /\ responses[1].id = dispatched[i].request.id
                  /\ responses[1].success = FALSE
                  /\ Present(responses[1], "error")
                  /\ (invoked[1].outcome \notin {"", Undefined}
                         => responses[1].error = invoked[1].outcome))
    /\ [][FailedDispatchStep => (router' = router /\ users' = users)]_vars

\* errorHandlingExample threw "Item not found", getUsers failed without a message, and
\* the greeting query dispatched next on the same router succeeded.
C7_Witness ==
    /\ Len(dispatched) = 3
    /\ dispatched[1].request.route = "deleteItem"
    /\ dispatched[1].result.responses =
           <<[id |-> "1", success |-> FALSE, error |-> "Item not found"]>>
    /\ dispatched[2].request.route = "getUsers"
    /\ dispatched[2].result.invoked[1].threw
    /\ dispatched[2].result.invoked[1].outcome = Undefined
    /\ dispatched[2].result.responses[1].success = FALSE
    /\ dispatched[3].result.responses =
           <<[id |-> "3", success |-> TRUE, data |-> "Hello from worker!"]>>

\* C17: when the procedure of a known route declares no validator, every call runs
\* its handler, once, with exactly the request's input payload, whatever that payload
\* is (missing, or of any shape); validation never fails for such a procedure.
C17_RawInputWithoutValidator ==
    \A i \in DOMAIN dispatched :
        LET request == dispatched[i].request
            invoked == dispatched[i].result.invoked
        IN (KnownRoute(request) /\ ~DeclaresValidator(request)) =>
              /\ Len(invoked) = 1
              /\ invoked[1].handler = Declared(request).handler
              /\ invoked[1].input = request.input

\* The greeting query, which declares no validator, was called with no payload, with
\* a payload addUser's validator rejects and with a well-formed one: its handler got
\* each of them as it was and every call succeeded.
C17_Witness ==
    /\ Len(dispatched) = 3
    /\ \A i \in 1..3 : /\ dispatched[i].request.route = "greeting"
                       /\ dispatched[i].result.responses[1].success
    /\ dispatched[1].request.input = Undefined
    /\ dispatched[1].result.invoked[1].input = Undefined
    /\ dispatched[2].request.input = InvalidUser
    /\ dispatched[2].result.invoked[1].input = InvalidUser
    /\ dispatched[3].request.input = ValidItem
    /\ dispatched[3].result.invoked[1].input = ValidItem

\* The handlers that neither read nor write their context, and the requests for
\* which no other handler runs.
PureHandlers == {"greeting", "deleteItem"}
RunsOnlyPureHandlers(request) ==
    (KnownRoute(request) /\ PassesValidation(request)) =>
        Declared(request).handler \in PureHandlers

OtherKind(procedure) ==
    IF procedure.type = "query"
    THEN mutation(procedure.input, procedure.handler)
    ELSE query(procedure.input, procedure.handler)
SwapKinds(rt) == createRouter([name \in DOMAIN rt |-> OtherKind(rt[name])])

\* The request the dispatcher is given next.
NextRequest(route, input) ==
    [id |-> TemplateString(Len(dispatched) + 1), route |-> route, input |-> input]

\* C16: the kind of a procedure does not affect dispatch: with every table the
\* dispatcher reaches, for every request it can be given next and every behaviour of
\* the database, the router whose procedures are rebuilt by the other builder (query
\* for mutation and mutation for query) from the same configs yields the same
\* Response Envelope, the same handler invocations and the same table.
C16_KindIrrelevant ==
    Len(dispatched) < MaxDispatch =>
        \A route \in RouteNames, input \in Inputs, outcome \in DbOutcomes :
            handle(SwapKinds(router), NextRequest(route, input), users, outcome)
                = handle(router, NextRequest(route, input), users, outcome)

\* The mutation addUser has added a row; the router that declares addUser as a query
\* and getUsers as a mutation answers the next getUsers and the next addUser as the
\* router itself does, rows included.
C16_Witness ==
    /\ Len(dispatched) = 1
    /\ dispatched[1].request.route = "addUser"
    /\ router["addUser"].type = "mutation" /\ SwapKinds(router)["addUser"].type = "query"
    /\ router["getUsers"].type = "query" /\ SwapKinds(router)["getUsers"].type = "mutation"
    /\ Len(users) = 2
    /\ handle(SwapKinds(router), NextRequest("getUsers", Undefined), users, "ok").responses
           = <<[id |-> "2", success |-> TRUE, data |-> "[{id:1,name:'John Doe'},{id:2,name:'Ann'}]"]>>
    /\ Len(handle(SwapKinds(router), NextRequest("addUser", ValidUser), users, "ok").users) = 3

(***************************************************************************)
(* Properties of the router-based workers (SpecWorker).                    *)
(***************************************************************************)
\* A Response Envelope with the request's id has been posted.
Answered(request) ==
    \E j \in DOMAIN posted : "id" \in DOMAIN posted[j] /\ posted[j].id = request.id

\* The Request Envelopes the listener has received.
ReceivedRequests == {received[i] : i \in {j \in DOMAIN received : TruthyString(received[j], "route")}}

\* Nothing is left to run in the worker: the setup has ended, every posted message
\* has been received and no handler is awaited.
Quiescent ==
    /\ initPc \in {"done", "failed"}
    /\ inbox = <<>>
    /\ awaiting = {}
    /\ draining = <<>>

\* C3: no request is left unanswered at the worker: once the worker has nothing left
\* to run, every Request Envelope its listener received has been answered by a posted
\* Response Envelope with its id, for every outcome of the setup and in both variants.
C3_EveryRequestAnswered ==
    Quiescent => \A request \in ReceivedRequests : Answered(request)

\* The reject-when-not-ready worker answers every request, whatever the setup does.
C3_RejectVariantAnswers ==
    (variant = "reject" /\ Quiescent) => \A request \in ReceivedRequests : Answered(request)

\* The queue-and-replay worker answers every request when its setup succeeds.
C3_QueueVariantAnswersAfterSetup ==
    (variant = "queue" /\ Quiescent /\ initPc = "done") =>
        \A request \in ReceivedRequests : Answered(request)

\* The step is the listener receiving a Request Envelope; Arrived is that envelope.
ListenStep ==
    /\ Len(received') = Len(received) + 1
    /\ TruthyString(received'[Len(received')], "route")
Arrived == received'[Len(received')]

\* The posted Response Envelopes that carry the request's id.
ResponsesTo(request) ==
    {j \in DOMAIN posted : "id" \in DOMAIN posted[j] /\ posted[j].id = request.id}
NotReadyResponse(request) == [id |-> request.id, success |-> FALSE, error |-> NotReadyError]
RejectedNotReady(request) == \E j \in ResponsesTo(request) : posted[j] = NotReadyResponse(request)

\* C13: in the reject-when-not-ready worker a Request Envelope that arrives before
\* isDbReady is set is answered in the same listener run with {id, success: false,
\* error: "Database not ready"}; it is not queued and no dispatch is started for it,
\* and afterwards it is never dispatched, never answered again and no handler runs
\* for it, also when the setup completes later.
C13_RejectWhenNotReady ==
    /\ [][(variant = "reject" /\ ListenStep /\ ~isDbReady) =>
             /\ posted' = Append(posted, NotReadyResponse(Arrived))
             /\ requestQueue' = requestQueue /\ awaiting' = awaiting
             /\ draining' = draining /\ dispatched' = dispatched]_vars
    /\ [](variant = "reject" =>
            /\ requestQueue = <<>> /\ draining = <<>>
            /\ \A request \in ReceivedRequests :
                   RejectedNotReady(request) =>
                       /\ Cardinality(ResponsesTo(request)) = 1
                       /\ request \notin awaiting
                       /\ \A i \in DOMAIN dispatched : dispatched[i].request # request)

\* The first request, a valid addUser, arrived before the setup completed and was
\* answered "Database not ready"; the setup then completed and the second request was
\* dispatched; the first was answered once, never dispatched, and added no row.
C13_Witness ==
    /\ variant = "reject" /\ initPc = "done" /\ isDbReady
    /\ Len(received) = 2 /\ Len(posted) = 3
    /\ posted[1] = [id |-> "1", success |-> FALSE, error |-> "Database not ready"]
    /\ posted[2] = LogMessage("Database ready")
    /\ posted[3] = [id |-> "2", success |-> TRUE, data |-> "[{id:1,name:'John Doe'}]"]
    /\ received[1].route = "addUser" /\ received[1].input = ValidUser
    /\ Len(dispatched) = 1 /\ dispatched[1].request.id = "2"
    /\ users = <<SeedRow>>

\* The requests the drain loop has dispatched, in the order it dispatched them, then
\* the one it is awaiting, then those still queued.
RECURSIVE Replayed(_)
Replayed(records) ==
    IF records = <<>> THEN <<>>
    ELSE (IF Field(Head(records), "via") = "drain" THEN <<Head(records).request>> ELSE <<>>)
         \o Replayed(Tail(records))
ReplayOrder == Replayed(dispatched) \o draining \o requestQueue
ArrivalOf(request) == CHOOSE i \in DOMAIN received : received[i] = request
AnswerTo(request) == CHOOSE j \in ResponsesTo(request) : TRUE

\* C14: in the queue-and-replay worker a Request Envelope that arrives before isDbReady
\* is set is appended to requestQueue and gets no response in that step; requests are
\* queued only then; the drain loop takes the queued requests in their arrival order,
\* one at a time, and each replayed request has exactly one response, posted in that
\* order, while a request still queued has none; when the setup has completed and the
\* loop has ended every queued request has been replayed; and no response is ever
\* "Database not ready".
C14_QueueAndReplay ==
    /\ [][(variant = "queue" /\ ListenStep) =>
             IF ~isDbReady
             THEN /\ requestQueue' = Append(requestQueue, Arrived)
                  /\ posted' = Append(posted, LogMessage("Request queued: " \o Arrived.route))
                  /\ awaiting' = awaiting /\ dispatched' = dispatched
             ELSE requestQueue' = requestQueue]_vars
    /\ [](variant = "queue" =>
            LET order == ReplayOrder
                done == Len(Replayed(dispatched))
            IN /\ Len(draining) <= 1
               /\ \A i \in DOMAIN order : order[i] \in ReceivedRequests
               /\ \A i, j \in DOMAIN order : i < j => ArrivalOf(order[i]) < ArrivalOf(order[j])
               /\ \A i \in DOMAIN order :
                      IF i <= done
                      THEN Cardinality(ResponsesTo(order[i])) = 1
                      ELSE ResponsesTo(order[i]) = {}
               /\ \A i, j \in 1..done : i < j => AnswerTo(order[i]) < AnswerTo(order[j])
               /\ (isDbReady => initPc \in {"drain", "done"})
               /\ (initPc = "drain" => Len(draining) = 1)
               /\ (initPc = "done" => (requestQueue = <<>> /\ draining = <<>>))
               /\ \A j \in DOMAIN posted : Field(posted[j], "error") # NotReadyError)

\* Three requests arrived before the setup completed; the setup completed and the
\* drain loop answered them in their arrival order.
C14_Witness ==
    /\ variant = "queue" /\ initPc = "done"
    /\ Len(dispatched) = 3
    /\ \A i \in 1..3 : dispatched[i].via = "drain" /\ dispatched[i].request.id = TemplateString(i)
    /\ Len(posted) = 7
    /\ posted[4] = LogMessage("Database ready")
    /\ \A i \in 1..3 : /\ posted[i].type = "log"
                       /\ posted[4 + i] = dispatched[i].result.responses[1]
                       /\ posted[4 + i].id = TemplateString(i)

\* C19: the router is read-only after construction: once createAppRouter has built
\* it, no step of the worker changes it, so across dispatches that succeed or fail,
\* one after the other or interleaved, every route name of the procedure map resolves
\* to the procedure it was built with and every other name stays unknown.
C19_RouterReadOnly ==
    /\ [][router # NoRouter => router' = router]_vars
    /\ [](router # NoRouter =>
            /\ DOMAIN router = DOMAIN AppRoutes
            /\ \A name \in DOMAIN AppRoutes : router[name] = AppRoutes[name]
            /\ "doesNotExist" \notin DOMAIN router)

\* Three requests were in flight together and completed out of their arrival order:
\* a handler threw, an unknown route was refused and a query succeeded, and the
\* router is the one that was built.
C19_Witness ==
    /\ router = createRouter(AppRoutes)
    /\ Len(dispatched) = 3
    /\ dispatched[1].request.id = "3" /\ dispatched[1].request.route = "deleteItem"
    /\ dispatched[1].result.invoked[1].threw
    /\ dispatched[2].request.id = "2" /\ dispatched[2].request.route = "doesNotExist"
    /\ dispatched[3].request.id = "1" /\ dispatched[3].request.route = "getUsers"
    /\ dispatched[3].result.responses[1].success

(***************************************************************************)
(* Properties of a WorkerClient connected to its worker (SpecSystem).      *)
(***************************************************************************)
\* The posted messages that are failure Response Envelopes.
FailureResponses ==
    {j \in DOMAIN posted : "id" \in DOMAIN posted[j] /\ ~TruthyFlag(posted[j], "success")}
CallOf(id) == CHOOSE k \in DOMAIN calls : calls[k].id = id

\* C15: whenever the worker answers a request with a failure Response Envelope (for an
\* unknown route, a rejected input, a handler that threw, or a database that is not
\* ready), the promise of the call that made the request is never fulfilled, and once
\* that envelope has been delivered it is rejected with an Error whose message is the
\* envelope's error string.
C15_ErrorPropagation ==
    \A j \in FailureResponses :
        /\ \E k \in DOMAIN calls : calls[k].id = posted[j].id
        /\ calls[CallOf(posted[j].id)].state # "fulfilled"
        /\ j <= deliveredUpTo =>
               /\ calls[CallOf(posted[j].id)].state = "rejected"
               /\ calls[CallOf(posted[j].id)].value = posted[j].error
               /\ posted[j].id \notin DOMAIN pendingRequests

\* The first call was made before the database was ready, the second had an input
\* its validator rejects, the handler of the third threw: each promise was rejected
\* with the error string of its own failure response.
C15_Witness ==
    /\ Len(calls) = 3 /\ deliveredUpTo = Len(posted)
    /\ toWorker[2].route = "addUser" /\ toWorker[3].route = "deleteItem"
    /\ calls[1].state = "rejected" /\ calls[1].value = "Database not ready"
    /\ calls[2].state = "rejected"
    /\ calls[2].value = "email: Invalid email, age: Number must be greater than 0"
    /\ calls[3].state = "rejected" /\ calls[3].value = "Item not found"
    /\ Cardinality(FailureResponses) = 3

(***************************************************************************)
(* Properties of the mutation hooks (SpecHooks).                           *)
(***************************************************************************)
\* The query keys a hook call configures for invalidation: "getUsers" for the
\* convenience hooks and the single-router useWorkerMutation, the invalidateQueries
\* list of the options otherwise.
ConfiguredKeys(hookCall) ==
    IF hookCall.hook \in {"useAddUser", "useUpdateUser", "useDeleteUser", "useWorkerMutationLegacy"}
    THEN <<"getUsers">>
    ELSE IF "invalidateQueries" \in DOMAIN hookCall.options
         THEN hookCall.options.invalidateQueries
         ELSE <<>>

\* The effects the observer of a call has run, in order.
RECURSIVE EffectsOf(_, _)
EffectsOf(log, call) ==
    IF log = <<>> THEN <<>>
    ELSE (IF Head(log).call = call THEN <<Head(log)>> ELSE <<>>) \o EffectsOf(Tail(log), call)

\* C21: when a mutation issued through useWorkerMutation, a route helper's mutate or
\* a convenience hook has succeeded, its observer has invalidated every query key
\* configured for it, each once and in the order of the list, and after them, when
\* the caller supplied onSuccess, has called it once with the response's data; when
\* the mutation has failed, or is still pending, it has invalidated nothing and has
\* not called onSuccess.
C21_MutationInvalidation ==
    \A call \in DOMAIN mutations :
        LET keys == ConfiguredKeys(mutations[call].hookCall)
            mine == EffectsOf(effects, call)
        IN IF mutations[call].observer.status = "success"
           THEN /\ calls[call].state = "fulfilled"
                /\ Len(mine) >= Len(keys)
                /\ \A i \in 1..Len(keys) : mine[i] = [call |-> call, effect |-> "invalidate", arg |-> keys[i]]
                /\ IF mutations[call].hookCall.options.onSuccess
                   THEN /\ Len(mine) = Len(keys) + 1
                        /\ mine[Len(mine)] = [call |-> call, effect |-> "onSuccess",
                                               arg |-> calls[call].value]
                   ELSE Len(mine) = Len(keys)
           ELSE mine = <<>>

\* useWorkerMutation with two keys to invalidate and a caller's onSuccess succeeded,
\* and useAddUser with a caller's onSuccess failed: the first invalidated both keys and
\* then called onSuccess, the second did nothing.
C21_Witness ==
    /\ DOMAIN mutations = {1, 2}
    /\ mutations[1].hookCall = [hook |-> "useWorkerMutation", route |-> "addUser",
                                options |-> [onSuccess |-> TRUE,
                                             invalidateQueries |-> <<"getUsers", "getUser">>]]
    /\ mutations[1].observer.status = "success"
    /\ mutations[2].hookCall.hook = "useAddUser" /\ mutations[2].hookCall.options.onSuccess
    /\ mutations[2].observer.status = "error" /\ calls[2].state = "rejected"
    /\ effects = <<[call |-> 1, effect |-> "invalidate", arg |-> "getUsers"],
                   [call |-> 1, effect |-> "invalidate", arg |-> "getUser"],
                   [call |-> 1, effect |-> "onSuccess", arg |-> "{id:2}"]>>

(***************************************************************************)
(* Properties of the client registry (SpecRegistry).                       *)
(***************************************************************************)
\* Every request() made on the client returned by getWorkerClient(workerUrl) went to an
\* instance whose Worker was created from that workerUrl.
ServedByOwnWorker ==
    \A i \in DOMAIN instances :
        \A k \in DOMAIN instances[i].askedFor :
            /\ instances[i].askedFor[k] = instances[i].worker
            /\ instances[i].toWorker[k].id = instances[i].calls[k].id

\* C22: clients obtained for different worker URLs are different instances, each bound
\* to the Worker of its own URL with its own id counter and table, so a request issued
\* for a URL is posted to that URL's worker.
C22_InstancePerUrl == ServedByOwnWorker

\* The registry of workerClient.ts (a Map keyed by workerUrl) keeps the property.
C22_KeyedRegistryIsolates == registryKind = "keyed" => ServedByOwnWorker

\* The keyed registry with both clients in use: each has its own counter, so both
\* issued an id "1".
C22_KeyedWitness ==
    /\ registryKind = "keyed"
    /\ Len(instances) = 2
    /\ \A i \in 1..2 : Len(instances[i].calls) >= 1 /\ instances[i].calls[1].id = "1"
    /\ instances[1].worker # instances[2].worker

(***************************************************************************)
(* Properties of the type-tagged database workers (SpecTagged).            *)
(***************************************************************************)
\* A step in which initDatabase runs.
InitDatabaseStep == taggedPc = "loading" /\ taggedPc' = "running"

\* C23: database initialization always succeeds: whatever OPFS does, after initDatabase
\* db is non-null, so a command that follows is not answered 'Database not initialized'.
C23_InitializationAlwaysSucceeds ==
    [][InitDatabaseStep =>
          /\ db' # "null"
          /\ getUsers(db', Table', TRUE, 0) # <<ErrorLog("Database not initialized")>>]_vars

\* The sqlite part of worker.ts does fall back when sqlite3.opfs is undefined (it has no
\* closeDb command, so the handle stays).
C23_SqliteFallsBackWithoutOpfs ==
    flavour = "sqlite" /\ opfs = "unavailable" /\ taggedPc = "running" => db = "memory"

C23_SqliteFallbackWitness ==
    /\ flavour = "sqlite" /\ opfs = "unavailable" /\ db = "memory"
    /\ \E m \in DOMAIN outbox : outbox[m].type = "queryResult" /\ Len(outbox[m].users) = 3

\* The users table of the database initDatabase opens, as it was before it ran.
OpenedBefore == IF db' = "opfs" THEN opfsTable ELSE memTable

SampleRows(t) ==
    /\ Cardinality(t.rows) = Len(SampleUsers)
    /\ {[name |-> r.name, email |-> r.email, age |-> r.age] : r \in t.rows}
           = {SampleUsers[i] : i \in DOMAIN SampleUsers}

\* An initialization that reported no error keeps the rows of a table that had some, and
\* fills a missing or empty table with exactly the sample rows.
PreservesData ==
    InitDatabaseStep /\ db' # "null" /\ outbox' = outbox =>
        IF OpenedBefore.rows # {}
        THEN Table'.rows = OpenedBefore.rows
        ELSE SampleRows(Table')

\* C24: initialization preserves existing data: a users table with at least one row has
\* the same rows afterwards (no drop, no sample rows added); a missing or empty table
\* ends up holding exactly the sample rows.
C24_InitializationPreservesData == [][PreservesData]_vars

\* worker2.ts keeps the property.
C24_Worker2PreservesData == [][flavour = "worker2" => PreservesData]_vars

\* worker2.ts initialized again over a table the page had changed.
C24_Worker2Witness ==
    /\ flavour = "worker2" /\ nRestarts = 1 /\ taggedPc = "running" /\ db = "opfs"
    /\ nCommands = 1
    /\ Cardinality(opfsTable.rows) = 3
    /\ outbox = <<>>

\* What the step posted.
NewPosts == SubSeq(outbox', Len(outbox) + 1, Len(outbox'))

IsQueryResult(msg) == msg.type = "queryResult"

\* list is every row of t, by ascending id.
FullOrderedList(list, t) ==
    /\ \A i \in 1..(Len(list) - 1) : list[i].id < list[i + 1].id
    /\ {list[i] : i \in DOMAIN list} = t.rows

\* What a command is meant to do to the rows.
CommandEffect(message, before, after) ==
    CASE message.type = "addUser" ->
           \E r \in after.rows :
               /\ after.rows = before.rows \cup {r}
               /\ \A q \in before.rows : q.id < r.id
               /\ r.name = message.payload.name
               /\ r.email = message.payload.email
               /\ r.age = message.payload.age
      [] message.type = "deleteUser" ->
           /\ after.rows \subseteq before.rows
           /\ before.rows \ after.rows = {r \in before.rows : r.id = message.payload.id}
      [] message.type = "updateUser" ->
           /\ {r.id : r \in after.rows} = {r.id : r \in before.rows}
           /\ Cardinality(after.rows) = Cardinality(before.rows)
           /\ \A r \in after.rows :
                  IF r.id = message.payload.id
                  THEN /\ \A f \in DOMAIN message.payload : r[f] = message.payload[f]
                       /\ \E q \in before.rows :
                              /\ q.id = r.id
                              /\ \A f \in DOMAIN q \ DOMAIN message.payload : q[f] = r[f]
                  ELSE r \in before.rows
      [] OTHER -> after.rows = before.rows

\* Commands that make the database run a statement.
Executable(message) ==
    \/ message.type \in {"addUser", "deleteUser", "getUsers"}
    \/ message.type = "updateUser" /\ DOMAIN message.payload # {"id"}

\* Statements and queryResult messages that belong to command task.
OpenStatements(queue, task) == Len(SelectSeq(queue, LAMBDA stmt : stmt.task = task))
ResultsFor(posts, task) ==
    Len(SelectSeq(posts, LAMBDA msg : IsQueryResult(msg) /\ msg.task = task))

\* worker2.ts and the sqlite part of worker.ts: the command's statement and the SELECT
\* that follows it succeed.
SyncCommandAnswered ==
    \A message \in TaggedMessages :
        /\ TaggedCommand(message, TRUE, TRUE)
        /\ Executable(message)
        /\ db # "null"
        /\ Table.exists
        => /\ CommandEffect(message, Table, Table')
           /\ LET results == SelectSeq(NewPosts, IsQueryResult)
              IN /\ Len(results) = 1
                 /\ results[1].task = nCommands'
                 /\ FullOrderedList(results[1].users, Table')

\* The PGlite workers: the statement at the head of the queue succeeds.
AsyncCommandAnswered ==
    /\ \A message \in TaggedMessages :
           AsyncCommand(message) /\ Executable(message) /\ db # "null"
           => /\ opfsTable' = opfsTable
              /\ OpenStatements(dbQueue', nCommands') = 1
              /\ message.type = "getUsers" => dbQueue'[Len(dbQueue')].op = "select"
    /\ DbStep(TRUE) /\ opfs = "available" /\ db = "opfs" /\ opfsTable.exists
       => LET stmt == Head(dbQueue)
          IN /\ stmt.op = "write"
                => /\ CommandEffect(stmt.message, opfsTable, opfsTable')
                   /\ NewPosts = <<>>
                   /\ dbQueue'[Len(dbQueue')] = [op |-> "select", task |-> stmt.task]
             /\ stmt.op = "select"
                => /\ opfsTable' = opfsTable
                   /\ Len(NewPosts) = 1
                   /\ IsQueryResult(NewPosts[1])
                   /\ NewPosts[1].task = stmt.task
                   /\ FullOrderedList(NewPosts[1].users, opfsTable)

\* No command is answered twice, or answered while one of its statements is waiting.
AnsweredAtMostOnce ==
    \A task \in 1..nCommands' :
        ResultsFor(outbox', task) + OpenStatements(dbQueue', task) <= 1

C25_AsyncWitness ==
    /\ flavour = "pglite"
    /\ nCommands = 2
    /\ ResultsFor(outbox, 1) = 1 /\ ResultsFor(outbox, 2) = 1
    /\ \E m \in DOMAIN outbox :
           IsQueryResult(outbox[m]) /\ outbox[m].task = 1 /\ Len(outbox[m].users) = 2

(***************************************************************************)
(* Properties of the client and the worker together (SpecSystem), cont.    *)
(***************************************************************************)
\* The Response Envelopes the worker produced for the request of call k: those of the
\* dispatches of that request, and the rejection of a request that came too early.
ProducedFor(k) ==
    UNION {{dispatched[d].result.responses[i] : i \in DOMAIN dispatched[d].result.responses} :
              d \in {e \in DOMAIN dispatched : dispatched[e].request = toWorker[k]}}
    \cup {r \in {NotReadyResponse(toWorker[k])} : RejectedNotReady(toWorker[k])}

\* The promise of call k is settled as the envelope says.
SettledAs(k, envelope) ==
    IF TruthyFlag(envelope, "success")
    THEN calls[k].state = "fulfilled" /\ calls[k].value = Field(envelope, "data")
    ELSE calls[k].state = "rejected" /\ calls[k].value = ErrorMessage(envelope)

\* C26: end-to-end isolation of concurrent calls: however requests, handler runs and
\* deliveries interleave, a settled promise holds the value or error of an envelope the
\* dispatcher produced for that call's own request (its id, route and input), and is
\* settled once.
C26_EndToEndIsolation ==
    \A k \in DOMAIN calls :
        calls[k].state # "pending" =>
            /\ calls[k].nResolve + calls[k].nReject = 1
            /\ \E j \in 1..deliveredUpTo :
                   /\ Field(posted[j], "id") = calls[k].id
                   /\ posted[j] \in ProducedFor(k)
                   /\ SettledAs(k, posted[j])

\* Three calls in flight at once; the answer to the second was posted and delivered
\* before the answer to the first, and the two promises hold different outcomes.
C26_Witness ==
    /\ Len(calls) = 3
    /\ \A k \in 1..3 : calls[k].state # "pending"
    /\ \E i, j \in 1..deliveredUpTo :
           i < j /\ Field(posted[i], "id") = "2" /\ Field(posted[j], "id") = "1"
    /\ calls[1].state # calls[2].state
    /\ Len(dispatched) = 3

\* The Request Envelope of call k is on its way to the worker or being handled there.
RequestInFlight(k) ==
    \/ \E i \in DOMAIN inbox : inbox[i] = toWorker[k]
    \/ toWorker[k] \in awaiting

\* A response to call k has been posted and not yet delivered.
ResponseInFlight(k) ==
    \E j \in (deliveredUpTo + 1)..Len(posted) : Field(posted[j], "id") = toWorker[k].id

\* C27: request() stores the Pending Call Table entry of an id before it hands the
\* Request Envelope with that id to the channel: whenever an envelope or a response to
\* it is in flight, the table holds the entry of that call, unless the call is settled.
C27_EntryBeforeEnvelope ==
    \A k \in DOMAIN toWorker :
        RequestInFlight(k) \/ ResponseInFlight(k) =>
            \/ calls[k].state # "pending"
            \/ /\ toWorker[k].id \in DOMAIN pendingRequests
               /\ pendingRequests[toWorker[k].id] = k

\* The first call is settled and has no entry any more; the second is being handled
\* by the worker, the response to the third is on its way back: both have their entry.
C27_Witness ==
    /\ Len(calls) = 3
    /\ calls[1].state # "pending" /\ "1" \notin DOMAIN pendingRequests
    /\ toWorker[2] \in awaiting /\ calls[2].state = "pending"
    /\ ResponseInFlight(3) /\ calls[3].state = "pending"
    /\ DOMAIN pendingRequests = {"2", "3"}

(***************************************************************************)
(* Properties of the router-based workers (SpecWorker), cont.              *)
(***************************************************************************)
\* The requests whose dispatch (and with it their handler) has been started: by the
\* listener, by the drain loop, or already answered.
DispatchStarted ==
    awaiting \cup {draining[i] : i \in DOMAIN draining}
             \cup {dispatched[d].request : d \in DOMAIN dispatched}

\* C28: arrival-order dispatch in the queue-and-replay worker: of two requests, the one
\* that arrived first has its handler started first, also when it was queued before
\* readiness and the other arrives while the queue is being drained.
C28_ArrivalOrderDispatch ==
    variant = "queue" =>
        \A a, b \in DOMAIN received :
            /\ a < b
            /\ TruthyString(received[a], "route")
            /\ received[b] \in DispatchStarted
            => received[a] \in DispatchStarted

\* The setup (connection, table creation, seeding) has run to its end.
SetupCompleted == initPc \in {"drain", "done"}

ReadinessGate ==
    /\ DispatchStarted # {} => SetupCompleted /\ isDbReady
    /\ isDbReady => handleRequest /\ SetupCompleted
    /\ initPc = "failed" => ~isDbReady /\ DispatchStarted = {}

\* C29: readiness gate of both router-based workers: no handler is invoked before the
\* setup has completed; isDbReady implies that handleRequest is set; a failed setup is
\* final, leaves isDbReady false and no handler is ever invoked.
C29_ReadinessGate ==
    /\ []ReadinessGate
    /\ [][initPc = "failed" => initPc' = "failed" /\ ~isDbReady']_vars

\* The setup failed after the dispatcher was created; two requests arrived afterwards
\* and neither was dispatched.
C29_Witness ==
    /\ initPc = "failed" /\ handleRequest /\ ~isDbReady
    /\ Len(received) = 2 /\ inbox = <<>>
    /\ \A i \in 1..2 : TruthyString(received[i], "route")
    /\ dispatched = <<>> /\ awaiting = {}

\* A step in which the listener receives a message; the message.
ReceiveStep == Len(received') = Len(received) + 1

\* The listener returned at once: nothing posted, queued or dispatched.
Ignored ==
    UNCHANGED <<posted, requestQueue, awaiting, draining, dispatched, users, router,
                isDbReady, handleRequest, initPc>>

\* The listener took the message as a Request Envelope: it started its dispatch, or,
\* before readiness, rejected it (reject variant) or queued it (queue variant).
TreatedAsRequest(request) ==
    IF isDbReady /\ handleRequest
    THEN awaiting' = awaiting \cup {request} /\ UNCHANGED <<posted, requestQueue>>
    ELSE IF variant = "reject"
    THEN posted' = Append(posted, NotReadyResponse(request)) /\ UNCHANGED <<awaiting, requestQueue>>
    ELSE /\ requestQueue' = Append(requestQueue, request)
         /\ Len(posted') = Len(posted) + 1
         /\ "id" \notin DOMAIN posted'[Len(posted')]
         /\ UNCHANGED awaiting

\* No message without a truthy route is queued, dispatched or answered.
NoRouteNeverHandled ==
    /\ \A i \in DOMAIN requestQueue : TruthyString(requestQueue[i], "route")
    /\ \A request \in DispatchStarted : TruthyString(request, "route")
    /\ \A j \in DOMAIN posted : Field(posted[j], "id") # EmptyRouteMessage.id

\* C30: the listener of the router-based workers ignores every message whose route is
\* missing or falsy, whatever the readiness: no response, nothing queued, no handler;
\* every message with a truthy route is treated as a Request Envelope.
C30_NoRouteIgnored ==
    /\ []NoRouteNeverHandled
    /\ [][ReceiveStep =>
             IF TruthyString(Arrived, "route") THEN TreatedAsRequest(Arrived) ELSE Ignored]_vars

\* Before readiness the queue variant received a message without a route, a request
\* and a message with an empty route: only the request is queued.
C30_Witness ==
    /\ variant = "queue" /\ ~isDbReady
    /\ Len(received) = 3
    /\ received[1] = NoRouteMessage
    /\ TruthyString(received[2], "route")
    /\ received[3] = EmptyRouteMessage
    /\ requestQueue = <<received[2]>>
    /\ awaiting = {} /\ dispatched = <<>>

(***************************************************************************)
(* The Pending Call Table of a connected WorkerClient (SpecSystem).        *)
(***************************************************************************)
\* The ids request() has issued, and the ids of the messages the worker posted that
\* have reached worker.onmessage.
IssuedIds == {calls[k].id : k \in DOMAIN calls}
AnsweredIds == {Field(posted[j], "id") : j \in 1..deliveredUpTo}

\* The Pending Call Table holds exactly the issued ids no response has been delivered for.
TableIsIssuedMinusAnswered == DOMAIN pendingRequests = IssuedIds \ AnsweredIds

\* C31: Pending Call Table invariant: the key set of pendingRequests is the set of
\* ids issued by request() minus the ids a response has been delivered for; only
\* request() and handleMessage change the table; and the table is empty whenever
\* every issued request has been answered.
C31_PendingTableInvariant ==
    /\ []TableIsIssuedMinusAnswered
    /\ [](IssuedIds \subseteq AnsweredIds => pendingRequests = <<>>)
    /\ [][pendingRequests' # pendingRequests => RequestStep \/ MessageStep]_vars

\* Three requests were issued; the responses to the third and to the first have been
\* delivered, one a failure: the table holds the second id alone.
C31_Witness ==
    /\ Len(calls) = 3
    /\ {"1", "3"} \subseteq AnsweredIds /\ "2" \notin AnsweredIds
    /\ \E k \in {1, 3} : calls[k].state = "rejected"
    /\ DOMAIN pendingRequests = {"2"}
    /\ lastEvent.op = "message"

\* Every issued request has been answered and the table is empty again.
C31_EmptyWitness ==
    /\ Len(calls) = 3
    /\ IssuedIds \subseteq AnsweredIds
    /\ pendingRequests = <<>>

(***************************************************************************)
(* Properties of the client registry (SpecRegistry), cont.                 *)
(***************************************************************************)
\* C32: client lifecycle: getWorkerClient never returns a client whose worker has
\* been terminated, so no request() is made through the registry on an instance
\* after terminate() was called on it.
C32_NeverReturnsTerminated ==
    \A i \in DOMAIN instances : instances[i].afterTerminate = 0

\* What the code does instead: the registry keeps the terminated instance, no second
\* Worker is created for its URL, and the requests made on it afterwards stay pending.
C32_TerminatedClientIsKept ==
    \A i \in DOMAIN instances :
        /\ \A j \in DOMAIN instances :
               (registryKind = "keyed" /\ instances[i].worker = instances[j].worker) => i = j
        /\ \A k \in DOMAIN instances[i].calls :
               k > Len(instances[i].calls) - instances[i].afterTerminate =>
                   /\ instances[i].calls[k].state = "pending"
                   /\ instances[i].calls[k].id \in DOMAIN instances[i].pendingRequests

\* terminate() was called on the client of a URL and a request was then made through
\* getWorkerClient for the same URL.
C32_KeptWitness ==
    \E i \in DOMAIN instances :
        /\ instances[i].terminated /\ instances[i].afterTerminate = 2
        /\ Len(instances[i].calls) = 3
        /\ instances[i].calls[1].state = "fulfilled"

\* The requests made for one workerUrl, as <<instance, call>> pairs.
RequestsFor(workerUrl) ==
    {<<i, k>> \in (DOMAIN instances) \X (1..MaxRegistryCalls + 1) :
        k \in DOMAIN instances[i].askedFor /\ instances[i].askedFor[k] = workerUrl}

\* All calls for one workerUrl returned the same client, and those made through
\* useWorkerClient the same proxy.
SameClientPerUrl ==
    \A workerUrl \in WorkerUrls :
        \A a, b \in RequestsFor(workerUrl) :
            /\ a[1] = b[1]
            /\ (instances[a[1]].via[a[2]] # 0 /\ instances[b[1]].via[b[2]] # 0) =>
                   instances[a[1]].via[a[2]] = instances[b[1]].via[b[2]]

\* At most one Worker was created per URL, and at most one Proxy per client.
OneWorkerPerUrl ==
    /\ \A i, j \in DOMAIN instances : instances[i].worker = instances[j].worker => i = j
    /\ \A p, q \in DOMAIN proxies : proxies[p].target = proxies[q].target => p = q

\* The requests for one workerUrl draw their ids from one counter and have their
\* entries in one table: they carry pairwise different ids, and an unsettled one is a
\* key of the table of the one client.
SharedCounterAndTable ==
    \A workerUrl \in WorkerUrls :
        \A a, b \in RequestsFor(workerUrl) :
            LET ca == instances[a[1]].calls[a[2]]
                cb == instances[b[1]].calls[b[2]]
            IN /\ a # b => ca.id # cb.id
               /\ ca.state = "pending" =>
                      /\ ca.id \in DOMAIN instances[b[1]].pendingRequests
                      /\ instances[b[1]].pendingRequests[ca.id] = a[2]

\* C33: singleton per worker URL: all getWorkerClient and useWorkerClient calls with
\* the same workerUrl return the same client and the same proxy, so at most one Worker
\* is created per URL and all requests for the URL share one id counter and one
\* Pending Call Table.
C33_SingletonPerUrl == SameClientPerUrl /\ OneWorkerPerUrl /\ SharedCounterAndTable

\* Three requests for one URL on the keyed registry, the first through
\* getWorkerClient and the others through useWorkerClient: one client, one proxy, the
\* ids "1", "2", "3", and the unanswered ones in the one table.
C33_Witness ==
    /\ registryKind = "keyed"
    /\ Len(instances) = 1 /\ Len(proxies) = 1
    /\ instances[1].askedFor = <<"/db-worker.js", "/db-worker.js", "/db-worker.js">>
    /\ instances[1].via = <<0, 1, 1>>
    /\ <<instances[1].calls[1].id, instances[1].calls[2].id, instances[1].calls[3].id>>
           = <<"1", "2", "3">>
    /\ instances[1].calls[2].state = "fulfilled"
    /\ DOMAIN instances[1].pendingRequests = {"1", "3"}

(***************************************************************************)
(* Properties of the type-tagged database workers (SpecTagged), cont.      *)
(***************************************************************************)
\* C34: in worker2.ts, isInitialized is true only if db is non-null (an open database).
C34_InitializedImpliesOpen ==
    flavour = "worker2" => (isInitialized => db # "null")

\* The commands and closeDb keep the flag and the handle together: a step other than
\* initDatabase that ends with the flag set and db null started that way.
C34_CommandsKeepFlagWithDb ==
    [][(flavour = "worker2" /\ ~InitDatabaseStep /\ isInitialized' /\ db' = "null")
          => (isInitialized /\ db = "null")]_vars

\* The step posted exactly one message, an error log.
PostsOneError ==
    /\ Len(NewPosts) = 1
    /\ NewPosts[1].type = "log" /\ NewPosts[1].cssClass = "error"

\* The step left the database, the flag and every row as they were.
WorkerStateKept ==
    /\ db' = db /\ isInitialized' = isInitialized
    /\ opfsTable' = opfsTable /\ memTable' = memTable

\* worker2.ts and the sqlite part of worker.ts: the command cannot be executed because
\* db is null, because updateUser names no field, or because its statement throws.
SyncCannotExecute(message, writeOk, readOk) ==
    \/ message.type \in WriteCommands \cup {"getUsers"} /\ db = "null"
    \/ message.type = "updateUser" /\ DOMAIN UpdateFields(message.payload) = {}
    \/ message.type \in WriteCommands /\ ~(writeOk /\ Table.exists)
    \/ message.type = "getUsers" /\ ~(readOk /\ Table.exists)

\* Such a command posts one error log and no queryResult and changes nothing, so the
\* listener answers whatever comes next as it would have without the failed command.
SyncFailureContained ==
    \A message \in TaggedMessages, writeOk \in BOOLEAN, readOk \in BOOLEAN :
        TaggedCommand(message, writeOk, readOk) /\ SyncCannotExecute(message, writeOk, readOk)
        => /\ PostsOneError
           /\ WorkerStateKept
           /\ \A next \in TaggedMessages :
                  onTaggedMessage(flavour, db', isInitialized', Table', next, TRUE, TRUE, 0)
                    = onTaggedMessage(flavour, db, isInitialized, Table, next, TRUE, TRUE, 0)

\* The PGlite workers: a command refused by the listener (db is null, or updateUser
\* names no field) posts one error log and submits no statement; a statement of a
\* command that throws (also because the handle is closed) posts one error log, and
\* nothing of that command is left to run or has been answered with a queryResult.
AsyncFailureContained ==
    /\ \A message \in TaggedMessages :
           /\ AsyncCommand(message)
           /\ \/ message.type \in WriteCommands \cup {"getUsers"} /\ db = "null"
              \/ message.type = "updateUser" /\ DOMAIN UpdateFields(message.payload) = {}
           => /\ PostsOneError
              /\ WorkerStateKept
              /\ dbQueue' = dbQueue
    /\ \A stepOk \in BOOLEAN :
           /\ DbStep(stepOk)
           /\ Head(dbQueue).op \in {"write", "select"}
           /\ ~StatementOk(stepOk, Head(dbQueue))
           => /\ PostsOneError
              /\ WorkerStateKept
              /\ dbQueue' = Tail(dbQueue)
              /\ OpenStatements(dbQueue', Head(dbQueue).task) = 0
              /\ Head(dbQueue).op = "write" => ResultsFor(outbox', Head(dbQueue).task) = 0

\* C35: failure containment in the type-tagged workers: a command that cannot be
\* executed (db is null or closed, updateUser carries no field to update, or the
\* database operation throws) posts an error log message, posts no queryResult, changes
\* no row, and leaves the worker able to process every subsequent command normally.
C35_FailureContainment == [][SyncFailureContained /\ AsyncFailureContained]_vars

\* worker2.ts: an addUser whose INSERT threw was answered with an error log, and the
\* addUser after it with the two sample rows and the new one.
C35_Witness ==
    /\ flavour = "worker2"
    /\ Len(outbox) = 2
    /\ outbox[1] = ErrorLog("Error adding user:")
    /\ IsQueryResult(outbox[2]) /\ outbox[2].task = 2
    /\ Len(outbox[2].users) = 3 /\ outbox[2].users[3].id = 3

\* The worker of part_002 after closeDb: a command was refused with 'Database not
\* initialized', and the rows are as they were.
C35_AsyncWitness ==
    /\ flavour = "pgliteRaw"
    /\ db = "null"
    /\ outbox # <<>> /\ outbox[Len(outbox)] = ErrorLog("Database not initialized")
    /\ opfsTable.exists

\* The initialization inserted the sample users.
InsertsSampleUsers ==
    /\ InitDatabaseStep
    /\ \E r \in opfsTable'.rows \ opfsTable.rows : r.name = SampleUsers[1].name

\* The database file has had rows before: in worker2.ts the first rows of a file are
\* always the sample users of an initialization, since no command runs before one.
SeededBefore == opfsTable.exists /\ opfsTable.seq > 0

\* C36: sample data only on first run: on the persistent database of worker2.ts the
\* sample users are inserted by at most one initialization, the first one: an
\* initialization that finds a database already seeded inserts none.
C36_SampleDataOnlyOnce ==
    [][(flavour = "worker2" /\ InsertsSampleUsers) => ~SeededBefore]_vars

\* What the code does: it inserts the sample users exactly when the table is empty.
C36_SeedsWhenTableEmpty ==
    [][(flavour = "worker2" /\ InitDatabaseStep /\ db' = "opfs")
          => (InsertsSampleUsers <=> (~opfsTable.exists \/ opfsTable.rows = {}))]_vars

\* The worker was started again after the user had added a row: the initialization
\* found three rows and inserted no sample user.
C36_KeptWitness ==
    /\ flavour = "worker2" /\ nRestarts = 1 /\ taggedPc = "running" /\ db = "opfs"
    /\ Cardinality(opfsTable.rows) = 3 /\ opfsTable.seq = 3
    /\ nCommands = 1

\* The worker was started again after the user had deleted both rows: the sample
\* users are back, with new ids.
C36_ReseededWitness ==
    /\ flavour = "worker2" /\ nRestarts = 1 /\ taggedPc = "running" /\ db = "opfs"
    /\ {r.id : r \in opfsTable.rows} = {3, 4}
    /\ {r.name : r \in opfsTable.rows} = {"Alice", "Bob"}

\* The PGlite worker has nothing left to do: every statement submitted has finished,
\* and the handle is open (no closeDb took effect in this run).
FullyProcessed == flavour \in PgliteKinds /\ dbQueue = <<>> /\ db = "opfs"

\* The queryResult messages posted in this run, oldest first.
QueryResults == SelectSeq(outbox, IsQueryResult)

\* The last queryResult posted, and the list of an App that has received everything
\* posted, are the users table by ascending id.
LastResultIsTable ==
    /\ QueryResults[Len(QueryResults)].users = OrderById(opfsTable.rows)
    /\ AppUsersAfter(<<>>, outbox) = OrderById(opfsTable.rows)

NoReadFailed == \A m \in DOMAIN outbox : outbox[m] # ErrorLog("Error getting users:")

====
